---- MODULE Spec2Model ----
(***************************************************************************)
(* LiftAxis (src/src/lerobot/robots/alohamini/lift_axis.py): a Z-axis      *)
(* controller on a shared motor bus.  It accumulates a multi-turn position *)
(* from a wrapping 0..4095 encoder, homes against the lower hard stop and  *)
(* runs a proportional height loop.                                        *)
(*                                                                         *)
(* Number representation.  The Python code works in floats; the model is   *)
(* exact:                                                                  *)
(*   - ticks are integers;                                                 *)
(*   - angles are kept in units of _deg_per_tick (360/4096 degree), so     *)
(*     _extended_deg() is dir_sign * extended_ticks in that unit;          *)
(*   - heights and height targets are kept in units of 1/4096 mm           *)
(*     (mm * ticks_per_rev), so one tick of travel is                      *)
(*     lead_mm_per_rev * output_gear_ratio units;                          *)
(*   - the P-loop velocity kp_vel * err is kept in units of 1/4096 until   *)
(*     int() truncates it toward zero.                                     *)
(***************************************************************************)
EXTENDS Integers, Sequences, FiniteSets, TLC

(* ------------------------------------------------------------------ *)
(* LiftAxisConfig defaults and the constants of LiftAxis.__init__      *)
(* ------------------------------------------------------------------ *)
ticks_per_rev == 4096
lead_mm_per_rev == 84
output_gear_ratio == 1
soft_min_mm == 0
home_down_speed == 1000
home_stall_current_ma == 60
kp_vel == 300
v_max == 1000
on_target_mm == 1
HomeIters == 600
MovedTicks == 10
\* cur_ma = raw_cur_ma * 6.5, kept as twice the value: raw_cur_ma * 13
CurrentScaleX2 == 13
\* OperatingMode.VELOCITY.value of lerobot.motors.feetech
OperatingMode_VELOCITY == 1

\* cfg.soft_max_mm of the instance under verification (the dataclass field is
\* a constructor input; 60 mm keeps the upper limit within one revolution).
soft_max_mm == 60

\* Motor descriptors: Motor(id, model, norm_mode)
Motor(id, model, norm) == [id |-> id, model |-> model, norm_mode |-> norm]
\* cfg.name, cfg.motor_id, cfg.motor_model
name == "lift_axis"
motor_id == 11
motor_model == "sts3215"
\* the keys of apply_action and contribute_observation, lines 208-209
key_h == "lift_axis.height_mm"
key_v == "lift_axis.vel"
\* the mapping of a bus that carries one arm motor
ArmMotors == [k \in {"shoulder_pan"} |-> Motor(1, "sts3215", "RANGE_M100_100")]
\* the same bus with an entry already under cfg.name
NamedMotors ==
    [k \in {"shoulder_pan", name} |->
        IF k = name THEN Motor(9, "sts3250", "RANGE_M100_100")
        ELSE Motor(1, "sts3215", "RANGE_M100_100")]

\* `None` of Optional[float]; a value v is the one-element sequence <<v>>.
None == <<>>
Some(v) == <<v>>

\* mm -> fixed-point height (units of 1/4096 mm)
Mm(x) == x * ticks_per_rev

Abs(x) == IF x < 0 THEN -x ELSE x
\* Python's builtin max / min on two arguments
PyMax(a, b) == IF b > a THEN b ELSE a
PyMin(a, b) == IF b < a THEN b ELSE a
\* Python's int() on the rational n/d, d > 0: truncation toward zero
TruncDiv(n, d) == IF n >= 0 THEN n \div d ELSE -((-n) \div d)

(* ------------------------------------------------------------------ *)
(* Bounds of the environment                                           *)
(* ------------------------------------------------------------------ *)
\* encoder readings the shaft can rest at, per revolution
RawSet == {0, 10, 21, 2058, 2926, 4090}
\* the shaft stays within MaxTurns revolutions of where configure() saw it
MaxTurns == 1
DispBound == MaxTurns * ticks_per_rev + (ticks_per_rev - 1)
ExtBound == DispBound + ticks_per_rev

VARIABLES
    enabled,         \* LiftAxis.enabled
    dir_sign,        \* cfg.dir_sign
    configured,      \* LiftAxis._configured
    last_tick,       \* LiftAxis._last_tick
    extended_ticks,  \* LiftAxis._extended_ticks
    z0_deg,          \* LiftAxis._z0_deg (units of _deg_per_tick)
    target_mm,       \* LiftAxis._target_mm: None or Some(height, 1/4096 mm)
    pos,             \* the encoder: what a Present_Position read returns now
    disp,            \* true signed shaft displacement since configure()
    since,           \* shaft motion the tick tracker has not sampled yet
    slow,            \* every motion between two tick reads was < half a rev
    pc,              \* where the blocking home() call stands ("idle": not in it)
    use_cur,         \* home(use_current): the running call's argument
    home_i,          \* home(): samples taken by the descent loop
    stuck,           \* home(): the debounce counter
    home_last,       \* home(): the local last_tick
    seen,            \* home(): what the newest sample read: ticks moved, raw current
    lastOp,          \* the LiftAxis method that ran last
    wr,              \* the bus writes of that call, in order
    rd,              \* the number of bus reads of that call (home(): of its latest step)
    ret,             \* what that call returned (None when it returns nothing)
    arg,             \* the argument of that call (None when it takes none)
    requested,       \* a height target was requested and not cleared since
    motors,          \* bus.motors: the motor mapping of the bus the axis sits on
    obs,             \* the mapping the last contribute_observation call left behind
    raised,          \* that call ended in an exception of the bus
    nmode,           \* Operating_Mode writes made since construction
    failed,          \* the bus operations of that call that raised
    w_in,            \* wheels.py: the arguments of body_to_wheel_raw
    w_raw,           \* wheels.py: the wheel commands it returned (None: not called yet)
    w_body,          \* wheels.py: what wheel_raw_to_body made of them (None: not yet)
    c_v,             \* wheels.py: a speed v given to degps_to_raw, in 1/SpeedDen deg/s
    c_raw,           \* wheels.py: <<degps_to_raw(v), degps_to_raw(-v)>> (None: not called)
    c_deg,           \* wheels.py: raw_to_degps of those two, in steps/s (None: not called)
    t_pc,            \* per thread: where its _update_extended_ticks call stands
    t_cur,           \* per thread: the local cur
    t_delta,         \* per thread: the local delta
    t_tmp,           \* per thread: the value of _extended_ticks loaded by +=
    overlap,         \* two _update_extended_ticks calls were under way at once
    host             \* lekiwi_host.py main(): the watchdog's variables, the clock,
                     \* and what the last iteration of the loop did

axis == <<enabled, dir_sign, configured, last_tick, extended_ticks, z0_deg, target_mm>>
env == <<pos, disp, since, slow>>
homev == <<pc, use_cur, home_i, stuck, home_last, seen>>
hist == <<lastOp, wr, rd, ret, arg, requested, obs, raised, nmode, failed>>
wheelv == <<w_in, w_raw, w_body>>
codecv == <<c_v, c_raw, c_deg>>
thrv == <<t_pc, t_cur, t_delta, t_tmp, overlap>>
sidev == <<wheelv, codecv, thrv, host>>
vars == <<axis, env, homev, hist, motors, sidev>>

(* ------------------------------------------------------------------ *)
(* The encoder and the shaft                                           *)
(* ------------------------------------------------------------------ *)
half == ticks_per_rev \div 2

\* Shaft motions (signed ticks) the environment may make before a read: the
\* shaft comes to rest at a reading of R, within DispBound of the configure()
\* position; with fast = FALSE only motions the tracker can follow (less than
\* half a revolution since its last sample).
Moves(s, R, fast) ==
    { d \in { r - s.pos + k * ticks_per_rev : r \in R, k \in -2..2 } :
        /\ Abs(s.disp + d) <= DispBound
        /\ (fast \/ Abs(s.since + d) < half) }

\* The part of the state _update_extended_ticks reads and writes
Trk == [pos |-> pos, disp |-> disp, since |-> since, slow |-> slow,
        last_tick |-> last_tick, ext |-> extended_ticks]

\* (mutant) the raw difference, no wrap correction
UnwrapDelta_nowrap(cur, last) == cur - last

\* (mutant) only the upper branch of the wrap correction (line 98)
UnwrapDelta_one_sided(cur, last) ==
    LET delta == cur - last
    IN  IF delta > half THEN delta - ticks_per_rev ELSE delta

\* lines 96-99: the wrap correction of cur - last_tick
UnwrapDelta(cur, last) ==
    LET delta == cur - last
    IN  IF delta > half THEN delta - ticks_per_rev
        ELSE IF delta < -half THEN delta + ticks_per_rev
        ELSE delta

\* _update_extended_ticks on an enabled axis, the shaft having moved by d
\* since the previous bus read
update_extended_ticks(s, d) ==
    LET cur == (s.pos + d) % ticks_per_rev
    IN  [pos |-> cur, disp |-> s.disp + d, since |-> 0,
         slow |-> s.slow /\ Abs(s.since + d) < half,
         last_tick |-> cur,
         ext |-> s.ext + UnwrapDelta(cur, s.last_tick)]

SetTrk(s) ==
    /\ pos' = s.pos /\ disp' = s.disp /\ since' = s.since /\ slow' = s.slow
    /\ last_tick' = s.last_tick /\ extended_ticks' = s.ext

\* _extended_deg(), in units of _deg_per_tick
extended_deg(ext) == dir_sign * ext

\* (mutant) the zero reference is not subtracted
height_mm_no_zero(ext, z0) ==
    extended_deg(ext) * (lead_mm_per_rev * output_gear_ratio)

\* get_height_mm() after its tick update: (deg - z0) * mm_per_deg, in 1/4096 mm
height_mm(ext, z0) ==
    (extended_deg(ext) - z0) * (lead_mm_per_rev * output_gear_ratio)

\* (mutant) the lower limit left out
clamp_target_no_min(h) == PyMin(Mm(soft_max_mm), h)

\* (mutant) the upper limit left out
clamp_target_no_max(h) == PyMax(Mm(soft_min_mm), h)

\* max(soft_min_mm, min(soft_max_mm, height_mm)) of set_height_target_mm
clamp_target(h) == PyMax(Mm(soft_min_mm), PyMin(Mm(soft_max_mm), h))

\* (mutant) no clamp
clamp_v_none(v, unit) == v

\* max(-v_max, min(v_max, v)), v given in units of 1/unit
clamp_v(v, unit) == PyMax(-v_max * unit, PyMin(v_max * unit, v))

Idle == pc = "idle"
\* The bus operations of LiftAxis, by the line that makes them
WrMode == "write Operating_Mode (line 86)"
RdConfigure == "read Present_Position (line 88)"
RdTicks == "read Present_Position (line 95)"
RdHomeStart == "read Present_Position (line 123)"
RdHomeCurrent == "read Present_Current (line 134)"
WrTorque == "write Torque_Enable (line 148)"
WrVelocity == "write Goal_Velocity (lines 121, 168, 177, 183, 224)"
RdCurrent == "read Present_Current (line 186)"
RdVelocity == "read Present_Velocity (line 196)"
RdLast == "read Present_Position (line 226)"

\* an observation mapping with no key
NoObs == [k \in {} |-> 0]

\* The bus writes a step adds to those of its call (home() keeps the writes of
\* its earlier steps in wr)
NewWrites(w) == IF pc = "idle" THEN w ELSE SubSeq(w, Len(wr) + 1, Len(w))
ModeWrites(w) == Cardinality({ i \in DOMAIN w : w[i][1] = "Operating_Mode" })

\* What a call leaves in the history: o the observation mapping it was given,
\* as it left it; F: the bus operations that raised in it; ex: it raised
HistVars(op, a, w, r, rv, o, F, ex) ==
    /\ lastOp' = op /\ arg' = a /\ wr' = w /\ rd' = r /\ ret' = rv
    /\ obs' = o /\ failed' = F /\ raised' = ex
    /\ nmode' = nmode + ModeWrites(NewWrites(w))

\* a call made by the caller of the LiftAxis itself
Hist(op, a, w, r, rv, o, F, ex) ==
    /\ HistVars(op, a, w, r, rv, o, F, ex)
    \* the wheel kinematics of examples/debug/wheels.py share nothing with the
    \* axis, a call made by the single caller is no second thread, and the
    \* host loop is not running
    /\ UNCHANGED sidev

\* a call that returned, made from the host loop of lekiwi_host.py (which
\* keeps its own variables)
DoneInLoop(op, a, w, r, rv) ==
    /\ HistVars(op, a, w, r, rv, NoObs, {}, FALSE)
    /\ UNCHANGED <<wheelv, codecv, thrv>>

\* a call that returned, the bus having answered every time
Done(op, a, w, r, rv) == Hist(op, a, w, r, rv, NoObs, {}, FALSE)

\* a call that ended in the exception of bus operation f
Raise(op, a, w, r, f) == Hist(op, a, w, r, None, NoObs, {f}, TRUE)

\* an early `return`: nothing read, written or changed
Nop(op, a, rv) ==
    /\ UNCHANGED <<motors, axis, env, homev, requested>>
    /\ Done(op, a, <<>>, 0, rv)

\* a call that ended in the exception of bus operation f, made from the
\* host loop or by the caller of the axis
Raised(in_loop, op, a, w, r, f) ==
    IF in_loop
    THEN /\ HistVars(op, a, w, r, None, NoObs, {f}, TRUE)
         /\ UNCHANGED <<wheelv, codecv, thrv>>
    ELSE Raise(op, a, w, r, f)

\* a call that returned, made from the host loop or by the caller of the axis
Returned(in_loop, op, a, w, r, rv) ==
    IF in_loop THEN DoneInLoop(op, a, w, r, rv) ELSE Done(op, a, w, r, rv)

(* ------------------------------------------------------------------ *)
(* LiftAxis methods: one action per call (home() is a blocking loop    *)
(* and takes one step per bus sample)                                  *)
(* ------------------------------------------------------------------ *)

\* line 84: the one-shot latch of configure()
configure_latch(c) == c

\* (mutant) configure() also takes the raw reading as the zero reference
configure_rezero(d) ==
    /\ Idle
    /\ IF ~enabled \/ configure_latch(configured)
       THEN Nop("configure", None, None)
       ELSE LET cur == (pos + d) % ticks_per_rev
            IN  /\ pos' = cur /\ last_tick' = cur
                /\ extended_ticks' = 0
                /\ z0_deg' = dir_sign * cur
                /\ configured' = TRUE
                /\ disp' = 0 /\ since' = 0 /\ slow' = TRUE
                /\ UNCHANGED <<motors, enabled, dir_sign, target_mm, homev, requested>>
                /\ Done("configure", None,
                        << <<"Operating_Mode", OperatingMode_VELOCITY>> >>, 1, None)

\* configure(), lines 81-90; d: shaft motion before its Present_Position read
configure(d) ==
    /\ Idle
    /\ IF ~enabled \/ configure_latch(configured)
       THEN Nop("configure", None, None)
       ELSE LET cur == (pos + d) % ticks_per_rev
            IN  /\ pos' = cur /\ last_tick' = cur
                /\ extended_ticks' = 0
                /\ configured' = TRUE
                /\ disp' = 0 /\ since' = 0 /\ slow' = TRUE
                /\ UNCHANGED <<motors, enabled, dir_sign, z0_deg, target_mm, homev, requested>>
                /\ Done("configure", None,
                        << <<"Operating_Mode", OperatingMode_VELOCITY>> >>, 1, None)

\* (mutant) the entry is written whether or not the name is there
motors_attach_overwrite(m) ==
    [k \in DOMAIN m \cup {name} |->
        IF k = name THEN Motor(motor_id, motor_model, "DEGREES") ELSE m[k]]

\* lines 78-79: the motor mapping after attach() on an enabled axis
motors_attach(m) ==
    IF name \in DOMAIN m THEN m
    ELSE [k \in DOMAIN m \cup {name} |->
            IF k = name THEN Motor(motor_id, motor_model, "DEGREES") ELSE m[k]]

\* attach(), lines 76-79
attach ==
    /\ Idle
    /\ IF ~enabled
       THEN Nop("attach", None, None)
       ELSE /\ motors' = motors_attach(motors)
            /\ UNCHANGED <<axis, env, homev, requested>>
            /\ Done("attach", None, <<>>, 0, None)

\* get_height_mm(), lines 107-112
get_height_mm(d) ==
    /\ Idle
    /\ IF ~enabled
       THEN Nop("get_height_mm", None, Some(0))
       ELSE LET s == update_extended_ticks(Trk, d)
            IN  /\ SetTrk(s)
                /\ UNCHANGED <<motors, enabled, dir_sign, configured, z0_deg, target_mm,
                               homev, requested>>
                /\ Done("get_height_mm", None, <<>>, 1, Some(height_mm(s.ext, z0_deg)))

\* set_height_target_mm(height_mm), lines 161-163; h in mm
set_height_target_mm(h) ==
    /\ Idle
    /\ IF ~enabled
       THEN Nop("set_height_target_mm", Some(h), None)
       ELSE /\ target_mm' = Some(clamp_target(Mm(h)))
            /\ requested' = TRUE
            /\ UNCHANGED <<motors, enabled, dir_sign, configured, last_tick,
                           extended_ticks, z0_deg, env, homev>>
            /\ Done("set_height_target_mm", Some(h), <<>>, 0, None)

\* (mutant) the target is dropped, the motor not stopped
clear_target_no_write ==
    /\ Idle
    /\ IF ~enabled
       THEN Nop("clear_target", None, None)
       ELSE /\ target_mm' = None
            /\ requested' = FALSE
            /\ UNCHANGED <<motors, enabled, dir_sign, configured, last_tick,
                           extended_ticks, z0_deg, env, homev>>
            /\ Done("clear_target", None, <<>>, 0, None)

\* (mutant) line 166 left out: a disabled axis clears and writes as well
clear_target_unguarded ==
    /\ Idle
    /\ target_mm' = None
    /\ requested' = FALSE
    /\ UNCHANGED <<motors, enabled, dir_sign, configured, last_tick,
                   extended_ticks, z0_deg, env, homev>>
    /\ Done("clear_target", None, << <<"Goal_Velocity", 0>> >>, 0, None)

\* clear_target(), lines 165-168
clear_target ==
    /\ Idle
    /\ IF ~enabled
       THEN Nop("clear_target", None, None)
       ELSE /\ target_mm' = None
            /\ requested' = FALSE
            /\ UNCHANGED <<motors, enabled, dir_sign, configured, last_tick,
                           extended_ticks, z0_deg, env, homev>>
            /\ Done("clear_target", None, << <<"Goal_Velocity", 0>> >>, 0, None)

\* line 176: the on-target test
on_target(err) == Abs(err) <= Mm(on_target_mm)

\* (mutant) the target is kept once reached
update_target_kept(t, err) == t

\* lines 176-179: the target update() leaves behind
update_target(t, err) == IF on_target(err) THEN None ELSE t

\* (mutant) the clamp to v_max left out
p_velocity_unclamped(err) == TruncDiv(dir_sign * kp_vel * err, ticks_per_rev)

\* The Goal_Velocity of the P-loop, lines 181-183: int(dir_sign * clamp(kp_vel * err))
p_velocity(err) ==
    TruncDiv(dir_sign * clamp_v(kp_vel * err, ticks_per_rev), ticks_per_rev)

\* update(), lines 170-188
\* update(); in_loop: called from the host loop (lekiwi_host.py line 123)
\* and not by the caller of the axis itself
update_call(d, in_loop) ==
    /\ Idle
    /\ IF ~enabled \/ target_mm = None
       THEN /\ UNCHANGED <<motors, axis, env, homev, requested>>
            /\ Returned(in_loop, "update", None, <<>>, 0, None)
       ELSE LET s == update_extended_ticks(Trk, d)
                cur_mm == height_mm(s.ext, z0_deg)
                err == target_mm[1] - cur_mm
            IN  /\ SetTrk(s)
                /\ target_mm' = update_target(target_mm, err)
                /\ requested' = (requested /\ target_mm' # None)
                /\ UNCHANGED <<motors, enabled, dir_sign, configured, z0_deg, homev>>
                /\ IF on_target(err)
                   THEN Returned(in_loop, "update", None, << <<"Goal_Velocity", 0>> >>, 1, None)
                   \* the trailing Present_Current read is the second read
                   ELSE Returned(in_loop, "update", None,
                                 << <<"Goal_Velocity", p_velocity(err)>> >>, 2, None)

\* update() called on the axis by its caller
update(d) == update_call(d, FALSE)

\* The boundary guard of apply_action, lines 220-221
guard_v(v, cur_mm) ==
    IF (cur_mm >= Mm(soft_max_mm) /\ v > 0) \/ (cur_mm <= Mm(soft_min_mm) /\ v < 0)
    THEN 0 ELSE v

\* (mutant) the velocity key leaves the target the height key has set
target_after_velocity_kept(t1) == t1

\* line 214: the velocity key clears the target, t1 being what lines 210-211
\* left as the target
target_after_velocity(t1) == None

\* apply_action(action), lines 200-226.  a.h / a.v: the value under
\* "<name>.height_mm" / "<name>.vel", None when the key is absent.
apply_action(a, d) ==
    /\ Idle
    /\ IF ~enabled
       THEN Nop("apply_action", a, None)
       ELSE LET t1 == IF a.h # None THEN Some(clamp_target(Mm(a.h[1]))) ELSE target_mm
            IN  IF a.v # None
                THEN LET v == clamp_v(a.v[1], 1)
                         s == update_extended_ticks(Trk, d)
                         g == guard_v(v, height_mm(s.ext, z0_deg))
                     IN  /\ target_mm' = target_after_velocity(t1)
                         /\ requested' = FALSE
                         /\ SetTrk(s)
                         /\ UNCHANGED <<motors, enabled, dir_sign, configured, z0_deg, homev>>
                         \* reads: get_height_mm, then the trailing Present_Position
                         /\ Done("apply_action", a, << <<"Goal_Velocity", g * dir_sign>> >>, 2, None)
                ELSE /\ target_mm' = t1
                     /\ requested' = (requested \/ a.h # None)
                     /\ UNCHANGED <<motors, enabled, dir_sign, configured, last_tick,
                                    extended_ticks, z0_deg, env, homev>>
                     /\ Done("apply_action", a, <<>>, 1, None)

\* (mutant) the mapping is rebuilt around the new key
obs_put_fresh(o, k, v) == [x \in {k} |-> v]

\* obs[k] = v on a dict: the key is added or its value replaced
obs_put(o, k, v) == [x \in DOMAIN o \cup {k} |-> IF x = k THEN v ELSE o[x]]

\* contribute_observation(obs), lines 191-198.  o: the mapping passed in;
\* pv: the Present_Velocity read, None when it raises (caught, line 197)
contribute_observation(o, d, pv) ==
    /\ Idle
    /\ IF ~enabled
       THEN /\ UNCHANGED <<motors, axis, env, homev, requested>>
            /\ Hist("contribute_observation", Some(o), <<>>, 0, None, o, {}, FALSE)
       ELSE LET s == update_extended_ticks(Trk, d)
                o1 == obs_put(o, key_h, height_mm(s.ext, z0_deg))
                o2 == IF pv = None THEN o1 ELSE obs_put(o1, key_v, pv[1])
            IN  /\ SetTrk(s)
                /\ UNCHANGED <<motors, enabled, dir_sign, configured, z0_deg,
                               target_mm, homev, requested>>
                /\ Hist("contribute_observation", Some(o), <<>>,
                        IF pv = None THEN 1 ELSE 2, None, o2,
                        IF pv = None THEN {RdVelocity} ELSE {}, FALSE)

(* ------------------------------------------------------------------ *)
(* home(use_current), lines 115-156                                    *)
(* ------------------------------------------------------------------ *)
NoSample == [dt |-> 0, cur |-> None]

\* lines 116-121: configure(), then Goal_Velocity = home_down_speed.
\* d: shaft motion before configure()'s read (when it reads)
home_begin(uc, d) ==
    /\ Idle
    /\ IF ~enabled
       THEN Nop("home", Some(uc), None)
       ELSE /\ IF configure_latch(configured)
               THEN /\ UNCHANGED <<last_tick, extended_ticks, env>>
                    /\ Done("home", Some(uc),
                            << <<"Goal_Velocity", home_down_speed>> >>, 0, None)
               ELSE LET cur == (pos + d) % ticks_per_rev
                    IN  /\ pos' = cur /\ last_tick' = cur
                        /\ extended_ticks' = 0
                        /\ disp' = 0 /\ since' = 0 /\ slow' = TRUE
                        /\ Done("home", Some(uc),
                                << <<"Operating_Mode", OperatingMode_VELOCITY>>,
                                   <<"Goal_Velocity", home_down_speed>> >>, 1, None)
            /\ configured' = TRUE
            /\ pc' = "home_read"
            /\ use_cur' = uc
            /\ UNCHANGED <<motors, enabled, dir_sign, z0_deg, target_mm, requested,
                           home_i, stuck, home_last, seen>>

\* lines 122-123: stuck = 0 and the local last_tick, read off the bus
home_read(d) ==
    /\ pc = "home_read"
    /\ LET cur == (pos + d) % ticks_per_rev
       IN  /\ pos' = cur /\ disp' = disp + d /\ since' = since + d
           /\ home_last' = cur
    /\ stuck' = 0 /\ home_i' = 0 /\ seen' = NoSample
    /\ pc' = "home_loop"
    /\ UNCHANGED <<motors, axis, slow, use_cur, requested>>
    /\ Done("home", arg, wr, 1, None)

\* line 128
has_moved(dt) == dt > MovedTicks

\* (mutant) a current read that raised counts as a stall
home_stall_on_failure(uc, moved, c) ==
    \/ uc /\ (c = None \/ c[1] * CurrentScaleX2 >= 2 * home_stall_current_ma)
    \/ ~moved

\* line 140: the stall condition of one sample; c: the raw Present_Current
\* read, None when the read raised (cur_ma = 0) or was not made
home_stall(uc, moved, c) ==
    LET cur_ma_x2 == IF c = None THEN 0 ELSE c[1] * CurrentScaleX2
    IN  (uc /\ cur_ma_x2 >= 2 * home_stall_current_ma) \/ ~moved

\* (mutant) a moving sample does not reset the counter
next_stuck_no_reset(st, stall) == IF stall THEN st + 1 ELSE st

\* lines 140-144: the debounce counter after a sample
next_stuck(st, stall) == IF stall THEN st + 1 ELSE 0

\* (mutant) the iterations are not counted
loop_iteration_uncounted(i) == i

\* line 124: range(600) goes on to its next value
loop_iteration(i) == i + 1

\* line 124: range(600) has another iteration to give
loop_continues(i) == i < HomeIters

\* lines 124-145: one iteration of the descent loop
home_sample(d, c) ==
    /\ pc = "home_loop"
    /\ loop_continues(home_i)
    /\ LET s == update_extended_ticks(Trk, d)
           now_tick == s.last_tick
           dt == Abs(now_tick - home_last)
           cc == IF use_cur THEN c ELSE None
           st == next_stuck(stuck, home_stall(use_cur, has_moved(dt), cc))
       IN  /\ SetTrk(s)
           /\ home_last' = now_tick
           /\ seen' = [dt |-> dt, cur |-> cc]
           /\ stuck' = st
           /\ home_i' = loop_iteration(home_i)
           /\ pc' = IF st >= 2 THEN "home_stop" ELSE "home_loop"
           /\ UNCHANGED <<motors, enabled, dir_sign, configured, z0_deg, target_mm,
                          use_cur, requested>>
           /\ Hist("home", arg, wr, IF use_cur /\ c # None THEN 2 ELSE 1, None, NoObs,
                   IF use_cur /\ c = None THEN {RdHomeCurrent} ELSE {}, FALSE)

\* (mutant) the direction sign forgotten
zero_reference_unsigned(ext) == ext

\* line 153: the zero reference taken from the accumulated ticks
zero_reference(ext) == extended_deg(ext)

\* (mutant) the descent ends with no write
home_stop_writes_none == <<>>

\* line 148: the write that ends the descent (line 147, Goal_Velocity 0, is
\* commented out)
home_stop_writes ==
    << <<"Torque_Enable", 0>> >>

\* lines 146-150, after the break or after the last iteration: Torque_Enable
\* = 0, and the call waits in time.sleep(1), ticks and zero reference still
\* what they were
home_release ==
    /\ \/ pc = "home_stop"
       \/ pc = "home_loop" /\ ~loop_continues(home_i)
    /\ pc' = "home_settle"
    /\ UNCHANGED <<motors, axis, env, requested,
                   use_cur, home_i, stuck, home_last, seen>>
    /\ Done("home", arg, wr \o home_stop_writes, 0, None)

\* lines 152-153, after the settle wait: the tick update, the zero reference
home_zero(d) ==
    /\ pc = "home_settle"
    /\ LET s == update_extended_ticks(Trk, d)
       IN  /\ SetTrk(s)
           /\ z0_deg' = zero_reference(s.ext)
    /\ pc' = "home_report"
    /\ UNCHANGED <<motors, enabled, dir_sign, configured, target_mm, requested,
                   use_cur, home_i, stuck, home_last, seen>>
    /\ Done("home", arg, wr, 1, None)

\* lines 154-156: h_now = get_height_mm() for the log line, and the return
\* (the call's locals are gone)
home_report(d) ==
    /\ pc = "home_report"
    /\ SetTrk(update_extended_ticks(Trk, d))
    /\ pc' = "idle"
    /\ use_cur' = FALSE /\ home_i' = 0 /\ stuck' = 0
    /\ home_last' = 0 /\ seen' = NoSample
    /\ UNCHANGED <<motors, enabled, dir_sign, configured, z0_deg, target_mm, requested>>
    /\ Done("home", arg, wr, 1, None)

(* ------------------------------------------------------------------ *)
(* The same methods on a bus that raises.  Python runs the bus          *)
(* operations of a call in order; the first exception no handler        *)
(* catches ends the call and reaches the caller.  The shaft motion      *)
(* before a read that raised shows in the next read that answers.       *)
(* ------------------------------------------------------------------ *)
Frozen == UNCHANGED <<motors, axis, env, homev, requested>>
ModeWritten == << <<"Operating_Mode", OperatingMode_VELOCITY>> >>

\* configure(), lines 86-90, with bus operation f raising
configure_bus_fails(f) ==
    /\ Idle /\ enabled /\ ~configure_latch(configured)
    /\ Frozen
    /\ \/ f = WrMode /\ Raise("configure", None, <<>>, 0, f)
       \/ f = RdConfigure /\ Raise("configure", None, ModeWritten, 0, f)

\* (mutant) the read is wrapped in a handler that answers 0
get_height_mm_bus_swallowed ==
    /\ Idle /\ enabled
    /\ Frozen
    /\ Hist("get_height_mm", None, <<>>, 0, Some(0), NoObs, {RdTicks}, FALSE)

\* get_height_mm(), lines 108-109, its Present_Position read raising
get_height_mm_bus_fails ==
    /\ Idle /\ enabled
    /\ Frozen
    /\ Raise("get_height_mm", None, <<>>, 0, RdTicks)

\* clear_target(), lines 167-168, its Goal_Velocity write raising: the target
\* is gone before the write is tried
clear_target_bus_fails ==
    /\ Idle /\ enabled
    /\ target_mm' = None
    /\ requested' = FALSE
    /\ UNCHANGED <<motors, enabled, dir_sign, configured, last_tick,
                   extended_ticks, z0_deg, env, homev>>
    /\ Raise("clear_target", None, <<>>, 0, WrVelocity)

\* update(), lines 172-186, with bus operation f raising; in_loop: called
\* from the host loop (lekiwi_host.py line 123)
update_fails_call(f, d, in_loop) ==
    /\ Idle /\ enabled /\ target_mm # None
    /\ \/ /\ f = RdTicks
          /\ UNCHANGED <<motors, axis, env, homev, requested>>
          /\ Raised(in_loop, "update", None, <<>>, 0, f)
       \/ /\ f = WrVelocity
          /\ SetTrk(update_extended_ticks(Trk, d))
          /\ UNCHANGED <<motors, enabled, dir_sign, configured, z0_deg,
                         target_mm, homev, requested>>
          /\ Raised(in_loop, "update", None, <<>>, 1, f)
       \/ /\ f = RdCurrent
          /\ LET s == update_extended_ticks(Trk, d)
                 err == target_mm[1] - height_mm(s.ext, z0_deg)
             IN  /\ ~on_target(err)
                 /\ SetTrk(s)
                 /\ Raised(in_loop, "update", None, << <<"Goal_Velocity", p_velocity(err)>> >>, 1, f)
          /\ UNCHANGED <<motors, enabled, dir_sign, configured, z0_deg,
                         target_mm, homev, requested>>

\* update() raising, called on the axis by its caller
update_bus_fails(f, d) == update_fails_call(f, d, FALSE)

\* The failures one apply_action call can meet: the read of the boundary
\* guard is inside try/except (lines 218-223), the others are not
ApplyFailures ==
    { {RdTicks}, {WrVelocity}, {RdLast}, {RdTicks, WrVelocity}, {RdTicks, RdLast} }

\* apply_action(action), lines 207-226, with the bus operations F raising
apply_action_bus_fails(a, F, d) ==
    /\ Idle /\ enabled
    /\ IF a.v # None
       THEN LET v == clamp_v(a.v[1], 1)
                guard_read == RdTicks \notin F
                s == IF guard_read THEN update_extended_ticks(Trk, d) ELSE Trk
                g == IF guard_read THEN guard_v(v, height_mm(s.ext, z0_deg)) ELSE v
                r == IF guard_read THEN 1 ELSE 0
            IN  /\ target_mm' = None
                /\ requested' = FALSE
                /\ SetTrk(s)
                /\ UNCHANGED <<motors, enabled, dir_sign, configured, z0_deg, homev>>
                /\ IF WrVelocity \in F
                   THEN Hist("apply_action", a, <<>>, r, None, NoObs, F, TRUE)
                   ELSE Hist("apply_action", a, << <<"Goal_Velocity", g * dir_sign>> >>,
                             IF RdLast \in F THEN r ELSE r + 1, None, NoObs, F,
                             RdLast \in F)
       ELSE /\ F = {RdLast}
            /\ target_mm' = IF a.h # None THEN Some(clamp_target(Mm(a.h[1])))
                            ELSE target_mm
            /\ requested' = (requested \/ a.h # None)
            /\ UNCHANGED <<motors, enabled, dir_sign, configured, last_tick,
                           extended_ticks, z0_deg, env, homev>>
            /\ Hist("apply_action", a, <<>>, 0, None, NoObs, F, TRUE)

\* contribute_observation(obs), lines 193-194, the read of get_height_mm()
\* raising: no key is written
contribute_observation_bus_fails(o) ==
    /\ Idle /\ enabled
    /\ Frozen
    /\ Hist("contribute_observation", Some(o), <<>>, 0, None, o, {RdTicks}, TRUE)

\* home(), lines 117-121, with bus operation f raising before the descent
home_begin_bus_fails(uc, f, d) ==
    /\ Idle /\ enabled
    /\ \/ /\ f = WrMode /\ ~configure_latch(configured)
          /\ Frozen
          /\ Raise("home", Some(uc), <<>>, 0, f)
       \/ /\ f = RdConfigure /\ ~configure_latch(configured)
          /\ Frozen
          /\ Raise("home", Some(uc), ModeWritten, 0, f)
       \/ /\ f = WrVelocity
          /\ IF configure_latch(configured)
             THEN /\ Frozen
                  /\ Raise("home", Some(uc), <<>>, 0, f)
             ELSE LET cur == (pos + d) % ticks_per_rev
                  IN  /\ pos' = cur /\ last_tick' = cur
                      /\ extended_ticks' = 0
                      /\ configured' = TRUE
                      /\ disp' = 0 /\ since' = 0 /\ slow' = TRUE
                      /\ UNCHANGED <<motors, enabled, dir_sign, z0_deg, target_mm,
                                     homev, requested>>
                      /\ Raise("home", Some(uc), ModeWritten, 1, f)

\* home(), lines 123-155, with bus operation f raising once the descent was
\* commanded: the call ends where it stands, the zero reference as it was
home_bus_fails(f) ==
    /\ pc # "idle"
    /\ \/ pc = "home_read" /\ f = RdHomeStart /\ wr' = wr
       \/ pc = "home_loop" /\ loop_continues(home_i) /\ f = RdTicks /\ wr' = wr
       \/ /\ pc = "home_stop" \/ (pc = "home_loop" /\ ~loop_continues(home_i))
          /\ f = WrTorque /\ wr' = wr
       \/ pc = "home_settle" /\ f = RdTicks /\ wr' = wr
       \/ pc = "home_report" /\ f = RdTicks /\ wr' = wr
    /\ pc' = "idle"
    /\ use_cur' = FALSE /\ home_i' = 0 /\ stuck' = 0
    /\ home_last' = 0 /\ seen' = NoSample
    /\ UNCHANGED <<motors, axis, env, requested, nmode, sidev>>
    /\ lastOp' = "home" /\ arg' = arg /\ rd' = 0 /\ ret' = None
    /\ obs' = NoObs /\ failed' = {f} /\ raised' = TRUE

(* ------------------------------------------------------------------ *)
(* Omniwheel kinematics, examples/debug/wheels.py.                      *)
(*                                                                      *)
(* Units.  A wheel speed is kept in raw steps/s (deg/s * 4096/360), as  *)
(* a rational.  The body velocity is given in the units in which the    *)
(* matrix M has integer entries:                                        *)
(*   theta in deg/s: BASE_RADIUS/WHEEL_RADIUS * 4096/360 = 256/9 steps  *)
(*     per deg/s on every wheel;                                        *)
(*   x in units of pi*WHEEL_RADIUS/(9*1024*sqrt(3)) m/s: one unit is    *)
(*     1/9 step on the left wheel, -1/9 on the right;                   *)
(*   y in units of pi*WHEEL_RADIUS/(9*1024) m/s: one unit is 2/9 step   *)
(*     on the back wheel, -1/9 on the left and the right.               *)
(* ------------------------------------------------------------------ *)
MAX_RAW == 3000
\* wheel speeds are kept in units of 1/StepDen step
StepDen == 9
\* steps * StepDen per deg/s of theta: 9 * (0.125 / 0.05) * (4096 / 360)
ThetaSteps == 256
\* 0x7FFF, 0x8000
Mask15 == 32767
Bit15 == 32768

\* Python's round() on the rational n/d, n >= 0, d > 0: half to even
RoundHalfEven(n, d) ==
    LET q == n \div d
        r == n % d
    IN  IF 2 * r < d THEN q
        ELSE IF 2 * r > d THEN q + 1
        ELSE IF q % 2 = 0 THEN q ELSE q + 1

\* the encoding left commented out at lines 38-45: bit 15 carries the sign
degps_to_raw_signbit(n, d) ==
    LET mag == RoundHalfEven(Abs(n), d)
        m2  == IF mag > Mask15 THEN Mask15 ELSE mag
    IN  IF n < 0 THEN m2 + Bit15 ELSE m2

\* degps_to_raw without the 0x7FFF ceiling of lines 51-52
degps_to_raw_unclamped(n, d) ==
    LET mag == RoundHalfEven(Abs(n), d)
    IN  IF n < 0 THEN -mag ELSE mag

\* degps_to_raw, lines 47-53, on the speed n/d steps/s (d > 0)
degps_to_raw(n, d) ==
    LET mag == RoundHalfEven(Abs(n), d)
        m2  == IF mag > Mask15 THEN Mask15 ELSE mag
    IN  IF n < 0 THEN -m2 ELSE m2

\* raw_to_degps, lines 57-61, in steps/s.  Python's & on a negative int works
\* on its two's complement: raw & 0x7FFF is raw mod 2^15, and raw & 0x8000 is
\* non-zero when raw mod 2^16 is at least 2^15.
raw_to_degps(raw) ==
    LET magnitude == raw % Bit15
        sign_bit  == (raw % (2 * Bit15)) >= Bit15
    IN  IF sign_bit THEN -magnitude ELSE magnitude

\* lines 80-89: M.dot(vel) for vel = [-x, -y, theta_rad], as wheel speeds
\* <<left, back, right>> in 1/StepDen step
wheel_speeds(x, y, theta) ==
    << x - y + ThetaSteps * theta,
       2 * y + ThetaSteps * theta,
       -x - y + ThetaSteps * theta >>

Max3(t) == PyMax(PyMax(t[1], t[2]), t[3])
\* line 93-94: peak of the absolute wheel speeds, in 1/StepDen step
wheel_peak(w) == Max3(<<Abs(w[1]), Abs(w[2]), Abs(w[3])>>)

\* (mutant) the scaling left out
wheel_clipped_never(peak, max_raw) == FALSE

\* line 95: peak > max_raw and peak > 1e-6 (a peak that is not 0 is at least
\* 1/StepDen step)
wheel_clipped(peak, max_raw) == peak > StepDen * max_raw /\ peak > 0

\* the speed n/d steps/s lies exactly half-way between two integers
half_way(n, d) == 2 * (Abs(n) % d) = d

\* lines 96 and 98: degps_to_raw on a speed that has been scaled by max_raw /
\* peak.  The code scales in doubles (w_degps * (max_raw / peak), then
\* abs(degps) * steps_per_deg), which are off the exact product by a few
\* units in the last place: wherever the exact speed is not half-way between
\* two integers that is far too little to change round(), and where it is
\* half-way the doubles decide whether round() sees a value below the half
\* (up = FALSE) or not below it and rounds up (up = TRUE).  An unscaled speed
\* is a multiple of 1/StepDen and never half-way.
scaled_raw(n, d, up) ==
    IF half_way(n, d)
    THEN LET mag == (Abs(n) \div d) + (IF up THEN 1 ELSE 0)
             m2  == IF mag > Mask15 THEN Mask15 ELSE mag
         IN  IF n < 0 THEN -m2 ELSE m2
    ELSE degps_to_raw(n, d)

\* the wheels whose scaled speed is half-way between two integers
wheel_ties(x, y, theta, max_raw) ==
    LET w == wheel_speeds(x, y, theta)
        peak == wheel_peak(w)
    IN  IF wheel_clipped(peak, max_raw)
        THEN { i \in 1..3 : half_way(w[i] * max_raw, peak) }
        ELSE {}

\* body_to_wheel_raw, lines 66-100: <<left_wheel, back_wheel, right_wheel>>;
\* up[i]: what the doubles make of wheel i when its scaled speed is half-way
body_to_wheel_raw(x, y, theta, max_raw, up) ==
    LET w == wheel_speeds(x, y, theta)
        peak == wheel_peak(w)
    IN  IF wheel_clipped(peak, max_raw)
        THEN [i \in 1..3 |-> scaled_raw(w[i] * max_raw, peak, up[i])]
        ELSE [i \in 1..3 |-> degps_to_raw(w[i], StepDen)]

\* wheel_raw_to_body, lines 103-120: M_inv.dot(v_lin) with the signs of x and
\* y turned back, as <<x, y, theta>> in units of 1/18 step: for wheel speeds
\* l = a - b + c, k = 2b + c, r = -a - b + c the inverse is a = (l - r)/2,
\* b = (2k - l - r)/6, c = (l + k + r)/3
wheel_raw_to_body(raw) ==
    LET l == raw_to_degps(raw[1])
        k == raw_to_degps(raw[2])
        r == raw_to_degps(raw[3])
    IN  << 9 * (l - r), 3 * (2 * k - l - r), 6 * (l + k + r) >>

\* a call of body_to_wheel_raw on the arguments w_in
call_body_to_wheel_raw ==
    /\ w_raw = None
    /\ \E up \in [1..3 -> BOOLEAN] :
          /\ \A i \in 1..3 :
                up[i] => i \in wheel_ties(w_in.x, w_in.y, w_in.theta, w_in.max_raw)
          /\ w_raw' = Some(body_to_wheel_raw(w_in.x, w_in.y, w_in.theta,
                                             w_in.max_raw, up))
    /\ UNCHANGED <<w_in, w_body, codecv, thrv, host, axis, env, homev, hist, motors>>

\* a call of wheel_raw_to_body on the commands the first call returned
call_wheel_raw_to_body ==
    /\ w_raw # None /\ w_body = None
    /\ w_body' = Some(wheel_raw_to_body(w_raw[1]))
    /\ UNCHANGED <<w_in, w_raw, codecv, thrv, host, axis, env, homev, hist, motors>>

\* speeds given to degps_to_raw alone are kept in units of 1/SpeedDen deg/s
SpeedDen == 7
\* steps_per_deg = 4096/360 = 512/45: v/SpeedDen deg/s is
\* (StepNum * v) / (StepDiv * SpeedDen) steps/s
StepNum == 512
StepDiv == 45

\* degps_to_raw(v) and degps_to_raw(-v) for the speed c_v
call_degps_to_raw ==
    /\ c_raw = None
    /\ c_raw' = Some(<< degps_to_raw(StepNum * c_v, StepDiv * SpeedDen),
                        degps_to_raw(StepNum * (-c_v), StepDiv * SpeedDen) >>)
    /\ UNCHANGED <<c_v, c_deg, wheelv, thrv, host, axis, env, homev, hist, motors>>

\* raw_to_degps on each of the two values degps_to_raw returned
call_raw_to_degps ==
    /\ c_raw # None /\ c_deg = None
    /\ c_deg' = Some(<< raw_to_degps(c_raw[1][1]), raw_to_degps(c_raw[1][2]) >>)
    /\ UNCHANGED <<c_v, c_raw, wheelv, thrv, host, axis, env, homev, hist, motors>>

(* ------------------------------------------------------------------ *)
(* _update_extended_ticks called by two threads with no lock (lines    *)
(* 93-101).  Each statement is a step of its own; the += of line 100   *)
(* is a load of _extended_ticks and a store, between which the other   *)
(* thread can run.  cur, delta and the loaded value are locals of the  *)
(* call.                                                               *)
(* ------------------------------------------------------------------ *)
\* (mutant) line 101 leaves _last_tick as it was
thread_last_tick_stale(cur, last) == last

\* line 101: self._last_tick = cur
thread_last_tick(cur, last) == cur

ThreadFrame == UNCHANGED <<motors, enabled, dir_sign, configured, z0_deg, target_mm,
                           homev, hist, wheelv, codecv, host>>

\* line 94: the call starts (a disabled axis returns at once)
thread_call(t) ==
    /\ Idle /\ enabled
    /\ t_pc[t] = "idle"
    /\ t_pc' = [t_pc EXCEPT ![t] = "read"]
    /\ overlap' = (overlap \/ \E u \in DOMAIN t_pc : u # t /\ t_pc[u] \notin {"idle", "done"})
    /\ UNCHANGED <<t_cur, t_delta, t_tmp, last_tick, extended_ticks, env>>
    /\ ThreadFrame

\* line 95: cur = read Present_Position, after the shaft moved by d
thread_read(t, d) ==
    /\ t_pc[t] = "read"
    /\ pos' = (pos + d) % ticks_per_rev
    /\ disp' = disp + d
    /\ since' = 0
    /\ t_cur' = [t_cur EXCEPT ![t] = (pos + d) % ticks_per_rev]
    /\ t_pc' = [t_pc EXCEPT ![t] = "delta"]
    /\ UNCHANGED <<t_delta, t_tmp, overlap, last_tick, extended_ticks, slow>>
    /\ ThreadFrame

\* lines 96-99: delta = cur - self._last_tick, wrapped
thread_delta(t) ==
    /\ t_pc[t] = "delta"
    /\ t_delta' = [t_delta EXCEPT ![t] = UnwrapDelta(t_cur[t], last_tick)]
    /\ t_pc' = [t_pc EXCEPT ![t] = "load"]
    /\ UNCHANGED <<t_cur, t_tmp, overlap, last_tick, extended_ticks, env>>
    /\ ThreadFrame

\* line 100, first half: load self._extended_ticks
thread_load(t) ==
    /\ t_pc[t] = "load"
    /\ t_tmp' = [t_tmp EXCEPT ![t] = extended_ticks]
    /\ t_pc' = [t_pc EXCEPT ![t] = "store"]
    /\ UNCHANGED <<t_cur, t_delta, overlap, last_tick, extended_ticks, env>>
    /\ ThreadFrame

\* line 100, second half: store the sum
thread_store(t) ==
    /\ t_pc[t] = "store"
    /\ extended_ticks' = t_tmp[t] + t_delta[t]
    /\ t_pc' = [t_pc EXCEPT ![t] = "last"]
    /\ UNCHANGED <<t_cur, t_delta, t_tmp, overlap, last_tick, env>>
    /\ ThreadFrame

\* line 101: self._last_tick = cur, and the call returns
thread_last(t) ==
    /\ t_pc[t] = "last"
    /\ last_tick' = thread_last_tick(t_cur[t], last_tick)
    /\ t_pc' = [t_pc EXCEPT ![t] = "done"]
    /\ t_cur' = [t_cur EXCEPT ![t] = 0]
    /\ t_delta' = [t_delta EXCEPT ![t] = 0]
    /\ t_tmp' = [t_tmp EXCEPT ![t] = 0]
    /\ UNCHANGED <<overlap, extended_ticks, env>>
    /\ ThreadFrame

\* the thread is ready for its next call; a run in which two calls have
\* overlapped is followed to the return of both and no further
thread_again(t) ==
    /\ t_pc[t] = "done" /\ ~overlap
    /\ t_pc' = [t_pc EXCEPT ![t] = "idle"]
    /\ UNCHANGED <<t_cur, t_delta, t_tmp, overlap, last_tick, extended_ticks, env>>
    /\ ThreadFrame

(* ------------------------------------------------------------------ *)
(* The command watchdog of the host loop, lekiwi_host.py main(), lines *)
(* 89-146.  Times are in ms.  An iteration of the while loop is two    *)
(* steps: its work (lines 99-143) and its wait (time.sleep, line 145,  *)
(* with the clock read of line 146 and the test of line 98).           *)
(* The robot (LeKiwi) and the sockets are outside this module:         *)
(* what recv_string and send_action do in an iteration, and whether    *)
(* the calls of lines 120-138 raise, are inputs.  host holds           *)
(*   clock            the time now (time.time() and perf_counter() run *)
(*                    alike; main() starts at 0)                       *)
(*   last_cmd_time, watchdog_active   the locals of lines 89-90        *)
(*   running          the loop has neither ended nor been left by an   *)
(*                    exception                                        *)
(*   at               where main() is: "loop" (line 99, or out of the  *)
(*                    loop) or "sleep" (line 145)                      *)
(*   recv, now, fired what the last iteration received, the `now` it   *)
(*                    read at line 114, whether it called stop_base()  *)
(*   stops            the stop_base() calls since a command was last   *)
(*                    applied                                          *)
(* The work of an iteration calls robot.lift.update() (line 123) on    *)
(* the LiftAxis, whose effect on the axis and the bus is part of that  *)
(* step.                                                               *)
(* ------------------------------------------------------------------ *)
\* host.watchdog_timeout_ms (line 41) of the instance under verification
watchdog_timeout_ms == 500

\* host.connection_time_s (line 40), in ms, of the instance under verification
connection_time_ms == 1600

\* what lines 101-104 come to in one iteration
RecvAgain == "zmq.Again (line 101)"
RecvApplied == "send_action returned (line 104)"
RecvBadMessage == "json.loads raised (line 102)"
RecvSendFails == "send_action raised (line 104)"

\* lines 106-107 are reached
cmd_applied(r) == r = RecvApplied

\* (mutant) the test of line 115 without `and not watchdog_active`
watchdog_fires_unlatched(now, last, active) == now - last > watchdog_timeout_ms

\* line 115: now - last_cmd_time > watchdog_timeout_ms / 1000 and not watchdog_active
watchdog_fires(now, last, active) ==
    now - last > watchdog_timeout_ms /\ ~active

\* how the calls of lines 120-138 end: all return (a zmq.Again of send_string
\* is caught); stop_base() raises; robot.lift.update() raises;
\* get_observation(), imencode or send_string raises.  Nothing in main()
\* catches the last three: the loop is left.
HostOk == "returned"
HostStopRaises == "stop_base raised (line 120)"
HostUpdateRaises == "lift.update() raised (line 123)"
HostLaterRaises == "raised after lift.update() (lines 124-138)"

\* Lines 99-120 and what becomes of the loop.  r: what lines 101-104 come
\* to; e: the time from the clock read of line 106 to that of line 114;
\* x: how the calls of lines 120-138 end
host_work(r, e, x) ==
    LET last == IF cmd_applied(r) THEN host.clock ELSE host.last_cmd_time
        active == IF cmd_applied(r) THEN FALSE ELSE host.watchdog_active
        now == host.clock + e
        fire == watchdog_fires(now, last, active)
    IN  /\ x = HostStopRaises => fire
        /\ host' = [ clock |-> now,
                     last_cmd_time |-> last,
                     watchdog_active |-> (active \/ fire),
                     running |-> (x = HostOk),
                     at |-> IF x = HostOk THEN "sleep" ELSE "loop",
                     recv |-> r, now |-> now, fired |-> fire,
                     stops |-> (IF cmd_applied(r) THEN 0 ELSE host.stops)
                                 + (IF fire THEN 1 ELSE 0) ]

\* The work of one iteration, lines 99-143, up to the wait of line 145,
\* with robot.lift.update() returning.  d: the shaft motion before
\* update() reads the encoder (line 123; robot.lift is the LiftAxis)
host_iteration(r, e, x, d) ==
    /\ host.running /\ host.at = "loop"
    /\ x # HostUpdateRaises
    /\ host_work(r, e, x)
    /\ IF x = HostStopRaises
       THEN UNCHANGED <<axis, env, homev, hist, motors, wheelv, codecv, thrv>>
       ELSE update_call(d, TRUE)

\* The work of one iteration with bus operation f of robot.lift.update()
\* raising (line 123): main() is left with the axis as update() left it
host_iteration_bus_fails(r, e, f, d) ==
    /\ host.running /\ host.at = "loop"
    /\ host_work(r, e, HostUpdateRaises)
    /\ update_fails_call(f, d, TRUE)

\* The wait of line 145, the clock read of line 146 and the test of line 98.
\* dt: the time the iteration took, the sleep included
host_sleep(dt) ==
    /\ host.running /\ host.at = "sleep"
    /\ host' = [host EXCEPT !.clock = host.clock + dt,
                            \* line 98: while duration < host.connection_time_s
                            !.running = host.clock + dt < connection_time_ms,
                            !.at = "loop"]
    /\ UNCHANGED <<axis, env, homev, hist, motors, wheelv, codecv, thrv>>

(* ------------------------------------------------------------------ *)
(* Inputs                                                              *)
(* ------------------------------------------------------------------ *)
\* requested heights (mm): below soft_min_mm, inside the range, above soft_max_mm
TargetInputs == {-5, 2, 70}
\* direct velocities: beyond -v_max, inside, inside, beyond +v_max
VelInputs == {-1500, -400, 400, 1500}
\* the actions given to apply_action: no key, either key, both keys
Actions ==
    { [h |-> None, v |-> None] }
      \cup { [h |-> Some(t), v |-> None] : t \in TargetInputs }
      \cup { [h |-> None, v |-> Some(x)] : x \in VelInputs }
      \cup { [h |-> Some(2), v |-> Some(400)] }
\* raw Present_Current readings: 9 * 6.5 = 58.5 mA < 60 mA <= 10 * 6.5 = 65 mA;
\* None: the read raises
Currents == {Some(9), Some(10), None}
\* encoder readings met during a descent: 10 ticks apart (not moved), 11 and
\* 21 apart (moved)
HomeRaws == {0, 10, 21}
\* encoder readings of normal operation: 0 mm, 0.43 mm, 42.2 mm and 60.006 mm
\* above the reading 0
MainRaws == {0, 21, 2058, 2926}
\* where the shaft rests while home() runs in normal operation
RestRaws == {0, 2926}
\* encoder readings of the runs with every method: a third of a revolution
\* apart, so that the shaft gets everywhere in steps the tracker can follow
AllRaws == {0, 1400, 2926}
\* the actions, observation mappings and Present_Velocity reads (None: the
\* read raises) of the runs with every method and a bus that may raise
AllActions ==
    { [h |-> None, v |-> None], [h |-> Some(2), v |-> None],
      [h |-> None, v |-> Some(400)], [h |-> None, v |-> Some(-400)] }
ObsInputs ==
    { [k \in {"shoulder_pan.pos"} |-> 7],
      [k \in {"shoulder_pan.pos", key_h, key_v} |-> IF k = "shoulder_pan.pos" THEN 7 ELSE 5] }
VelReads == {Some(-3), None}
\* the actions given to apply_action when the bus raises
FailActions == { [h |-> Some(2), v |-> None], [h |-> None, v |-> Some(400)] }
\* body velocities for the wheel kinematics: x and y in their units (20324
\* units of x and 11734 units of y are 0.2 m/s, LIN_SPEED), theta in deg/s
\* (80: ANG_SPEED)
XInputs == {-20324, 0, 7, 20324, 315000}
YInputs == {-11734, 0, 5, 11734}
ThetaInputs == {-80, 0, 1, 80}
\* ceilings: none, one that scales the wheel speeds of y = 11734 alone to
\* -501.5, 1003, -501.5, the default, one beyond 0x7FFF
MaxRawInputs == {0, 1003, MAX_RAW, 40000}
\* speeds for degps_to_raw alone, in 1/SpeedDen deg/s: around 0 (3 is the
\* first that rounds to 1 step/s), and around 20160, which is 32768 steps/s
\* what the shaft moves between two reads of the threads, and how far from
\* where it started
ThreadMoves == {-100, 0, 100}
ThreadDisp == 200
\* the host loop: what an iteration receives, the time between its two clock
\* reads, and the time an iteration has taken when its wait ends (the loop
\* sleeps to 1 / max_loop_freq_hz and can take longer than the watchdog's
\* timeout)
RecvInputs == {RecvAgain, RecvApplied, RecvBadMessage, RecvSendFails}
HostOutcomes == {HostOk, HostStopRaises, HostLaterRaises}
ClockGaps == {0, 1}
LoopTimes == {200, 600}
SpeedInputs == (-40..40) \cup {-25000, -20161, -20160, -20159, 20159, 20160, 20161, 25000}
\* failed configure() attempts the runs go through
MaxModeWrites == 1
\* ticks the shaft gets away from where configure() saw it in these runs
AllDisp == 4096

(* ------------------------------------------------------------------ *)
(* Specifications                                                      *)
(* ------------------------------------------------------------------ *)
\* The fields LiftAxis.__init__ sets, lines 57-73, with the encoder anywhere
\* in MainRaws; t, rq, op, a: the target, and the call that set it
AxisBuilt(t, rq, op, a) ==
    /\ enabled \in BOOLEAN
    /\ dir_sign \in {-1, 1}
    /\ configured = FALSE
    /\ last_tick = 0
    /\ extended_ticks = 0
    /\ z0_deg = 0
    /\ target_mm = t
    /\ pos \in MainRaws
    /\ disp = 0 /\ since = 0 /\ slow = TRUE
    /\ pc = "idle" /\ use_cur = FALSE /\ home_i = 0 /\ stuck = 0
    /\ home_last = 0 /\ seen = NoSample
    /\ lastOp = op /\ wr = <<>> /\ rd = 0 /\ ret = None
    /\ arg = a /\ requested = rq
    /\ obs = NoObs /\ raised = FALSE /\ nmode = 0 /\ failed = {}

\* LiftAxis.__init__, lines 57-73: self._target_mm = 0.0 (line 72)
InitAxis == AxisBuilt(Some(0), FALSE, "init", None)

\* the wheel kinematics not called
WheelsIdle ==
    /\ w_in = [x |-> 0, y |-> 0, theta |-> 0, max_raw |-> MAX_RAW]
    /\ w_raw = None /\ w_body = None

\* degps_to_raw and raw_to_degps not called
CodecIdle == c_v = 0 /\ c_raw = None /\ c_deg = None

\* no thread inside _update_extended_ticks
Threads == {1, 2}
ThreadsIdle ==
    /\ t_pc = [t \in Threads |-> "idle"]
    /\ t_cur = [t \in Threads |-> 0]
    /\ t_delta = [t \in Threads |-> 0]
    /\ t_tmp = [t \in Threads |-> 0]
    /\ overlap = FALSE

\* main() at line 98, about to enter the loop for the first time
HostIdle ==
    host = [ clock |-> 0, last_cmd_time |-> 0, watchdog_active |-> FALSE,
             running |-> TRUE, at |-> "loop", recv |-> RecvAgain, now |-> 0, fired |-> FALSE,
             stops |-> 0 ]

SideIdle == WheelsIdle /\ CodecIdle /\ ThreadsIdle /\ HostIdle

\* the axis on a bus whose mapping holds the arm motor
Init == InitAxis /\ motors = ArmMotors /\ SideIdle

\* The single-threaded caller: any method, any time; the shaft moves no faster
\* than the tracker can follow, and rests at the hard stop during a descent.
\* The bus answers, but for the two failures after which the caller goes on
\* with the axis as before; every other failure is in NextAll.
Next ==
    \/ \E d \in Moves(Trk, MainRaws, FALSE) : configure(d)
    \/ \E d \in Moves(Trk, MainRaws, FALSE) : get_height_mm(d)
    \/ \E h \in TargetInputs : set_height_target_mm(h)
    \/ clear_target
    \/ \E d \in Moves(Trk, MainRaws, FALSE) : update(d)
    \/ \E d \in Moves(Trk, MainRaws, FALSE), a \in Actions : apply_action(a, d)
    \/ \E d \in Moves(Trk, RestRaws, FALSE) : home_begin(TRUE, d)
    \/ \E d \in Moves(Trk, RestRaws, FALSE) : home_read(d)
    \/ home_sample(0, Some(10))
    \/ home_release
    \/ \E d \in Moves(Trk, RestRaws, FALSE) : home_zero(d)
    \/ \E d \in Moves(Trk, RestRaws, FALSE) : home_report(d)
    \* the two bus failures that do not end the use of the axis where they
    \* happen: the guard's height read of apply_action, which is caught (lines
    \* 218-223), and configure()'s read raising after the mode was written and
    \* before the latch is set (lines 86-90)
    \/ \E a \in { b \in Actions : b.v # None } : apply_action_bus_fails(a, {RdTicks}, 0)
    \/ nmode < MaxModeWrites /\ configure_bus_fails(RdConfigure)

Spec == Init /\ [][Next]_vars

\* Every method of LiftAxis, attach() and contribute_observation() included,
\* on a bus that may or may not hold an entry under cfg.name and whose
\* operations may raise.
InitAll ==
    /\ InitAxis /\ dir_sign = -1 /\ pos \in AllRaws
    /\ motors \in {ArmMotors, NamedMotors}
    /\ SideIdle

\* the shaft motions of these runs: within AllDisp ticks of where configure()
\* saw the shaft
AllMoves(R) == { d \in Moves(Trk, R, FALSE) : Abs(disp + d) <= AllDisp }

NextAll ==
    \/ attach
    \/ \E d \in AllMoves(AllRaws) : configure(d)
    \/ \E d \in AllMoves(AllRaws) : get_height_mm(d)
    \/ set_height_target_mm(2)
    \/ clear_target
    \/ \E d \in AllMoves(AllRaws) : update(d)
    \/ \E d \in AllMoves(AllRaws), a \in AllActions : apply_action(a, d)
    \/ \E d \in AllMoves(AllRaws), o \in ObsInputs, pv \in VelReads :
          contribute_observation(o, d, pv)
    \/ \E d \in AllMoves({0}) : home_begin(TRUE, d)
    \/ \E d \in AllMoves({0}) : home_read(d)
    \/ \E c \in {Some(10), None} : home_sample(0, c)
    \/ home_release
    \/ \E d \in AllMoves({0}) : home_zero(d)
    \/ \E d \in AllMoves({0}) : home_report(d)
    \/ \E f \in {WrMode, RdConfigure} : nmode < MaxModeWrites /\ configure_bus_fails(f)
    \/ get_height_mm_bus_fails
    \/ clear_target_bus_fails
    \/ \E d \in AllMoves(AllRaws), f \in {RdTicks, WrVelocity, RdCurrent} :
          update_bus_fails(f, d)
    \/ \E d \in AllMoves(AllRaws), a \in FailActions, F \in ApplyFailures :
          apply_action_bus_fails(a, F, d)
    \/ \E o \in ObsInputs : contribute_observation_bus_fails(o)
    \/ \E d \in AllMoves({0}), f \in {WrMode, RdConfigure, WrVelocity} :
          nmode < MaxModeWrites /\ home_begin_bus_fails(TRUE, f, d)
    \/ \E f \in {RdHomeStart, RdTicks, WrTorque} : home_bus_fails(f)

SpecAll == InitAll /\ [][NextAll]_vars

\* The wheel kinematics alone: body_to_wheel_raw, then wheel_raw_to_body on
\* its result, for every body velocity and ceiling of the input sets.
InitWheels ==
    /\ InitAxis /\ ~enabled /\ dir_sign = -1 /\ pos = 0
    /\ motors = ArmMotors
    /\ ThreadsIdle /\ HostIdle
    /\ \/ /\ w_in \in [x : XInputs, y : YInputs, theta : ThetaInputs,
                        max_raw : MaxRawInputs]
          /\ w_raw = None /\ w_body = None
          /\ CodecIdle
       \/ /\ WheelsIdle
          /\ c_v \in SpeedInputs
          /\ c_raw = None /\ c_deg = None

NextWheels ==
    \/ call_body_to_wheel_raw
    \/ call_wheel_raw_to_body
    \/ call_degps_to_raw
    \/ call_raw_to_degps

SpecWheels == InitWheels /\ [][NextWheels]_vars

\* Tick tracking alone, with the shaft free to move any amount between two
\* reads (the accumulated ticks kept within ExtBound).
NextUnwrap ==
    \/ \E d \in Moves(Trk, RawSet, TRUE) : configure(d)
    \/ \E d \in Moves(Trk, RawSet, TRUE) :
          get_height_mm(d) /\ Abs(extended_ticks') <= ExtBound

SpecUnwrap == Init /\ [][NextUnwrap]_vars

\* Homing alone: a first home() on the default configuration, under every
\* sequence of HomeRaws positions and Currents readings during the descent,
\* with and without use_current.
InitHome == Init /\ enabled /\ dir_sign = -1 /\ pos = 0

NextHome ==
    \/ \E uc \in BOOLEAN : ~configured /\ home_begin(uc, 0)
    \/ \E d \in Moves(Trk, HomeRaws, FALSE) : home_read(d)
    \/ \E d \in Moves(Trk, HomeRaws, FALSE), c \in Currents : home_sample(d, c)
    \/ home_release
    \/ \E d \in Moves(Trk, HomeRaws, FALSE) : home_zero(d)
    \/ \E d \in Moves(Trk, HomeRaws, FALSE) : home_report(d)

SpecHome == InitHome /\ [][NextHome]_vars

\* home() is a plain blocking loop on the caller's thread: each of its steps
\* is taken once it can be.
SpecHomeLive == SpecHome /\ WF_vars(NextHome)

\* Two threads calling _update_extended_ticks on one axis
InitThreads == Init /\ enabled /\ dir_sign = -1 /\ pos = 0

NextThreads ==
    \/ \E t \in Threads : thread_call(t)
    \/ \E t \in Threads : \E d \in ThreadMoves :
          thread_read(t, d) /\ Abs(disp + d) <= ThreadDisp
    \/ \E t \in Threads : thread_delta(t)
    \/ \E t \in Threads : thread_load(t)
    \/ \E t \in Threads : thread_store(t)
    \/ \E t \in Threads : thread_last(t)
    \/ \E t \in Threads : thread_again(t)

SpecThreads == InitThreads /\ [][NextThreads]_vars

\* the height (mm) requested of the axis before the loop is watched: none
\* since construction, or one above the axis
HostTargets == {None, Some(2)}
\* encoder readings while the loop runs: the shaft at rest or a few ticks off
HostRaws == {0, 21}

\* The host loop alone, under every sequence of received commands and
\* iteration times, on an enabled axis as built or as a
\* set_height_target_mm(h) left it
InitHost ==
    /\ \E h \in HostTargets :
          IF h = None
          THEN InitAxis
          ELSE AxisBuilt(Some(clamp_target(Mm(h[1]))), TRUE, "set_height_target_mm", h)
    /\ motors = ArmMotors /\ SideIdle
    /\ enabled /\ dir_sign = -1 /\ pos = 0

NextHost ==
    \/ \E r \in RecvInputs, e \in ClockGaps, x \in HostOutcomes :
          \E d \in Moves(Trk, HostRaws, FALSE) : host_iteration(r, e, x, d)
    \/ \E r \in RecvInputs, e \in ClockGaps, f \in {RdTicks, WrVelocity, RdCurrent} :
          \E d \in Moves(Trk, HostRaws, FALSE) : host_iteration_bus_fails(r, e, f, d)
    \/ \E dt \in LoopTimes : host_sleep(dt)

SpecHost == InitHost /\ [][NextHost]_vars

(* ================================================================== *)
(* Properties                                                          *)
(* ================================================================== *)
GV(v) == << <<"Goal_Velocity", v>> >>
Sgn(x) == IF x > 0 THEN 1 ELSE IF x < 0 THEN -1 ELSE 0
\* the height a get_height_mm() made in the last call has seen
Height == height_mm(extended_ticks, z0_deg)

\* C1 (under SpecUnwrap): as long as the shaft moved by less than half a
\* revolution between any two consecutive reads since configure(), after every
\* tick update extended_ticks is the true signed displacement since
\* configure() and last_tick is the latest raw reading; so a forward rotation
\* through a wrap of the encoder keeps extended_ticks growing with the shaft.
C1_UnwrapTracksShaft ==
    (enabled /\ configured /\ slow) =>
        (extended_ticks = disp /\ last_tick = pos)

\* C1 witness: a tick update has followed the shaft forward over more than one
\* full revolution, the raw reading having wrapped
C1_Witness ==
    /\ lastOp = "get_height_mm" /\ enabled /\ configured /\ slow
    /\ disp > ticks_per_rev
    /\ extended_ticks = disp

\* C2 (as claimed): update() reads nothing, writes nothing and changes nothing
\* whenever no height target has been requested since construction or since
\* the last clear -- a freshly constructed axis included.
C2_UpdateIdleUnlessRequested ==
    [][(lastOp' = "update" /\ ~requested) =>
          (wr' = <<>> /\ rd' = 0 /\ UNCHANGED <<axis, env>>)]_vars

\* C3: an update() that finds the pending target within on_target_mm of the
\* height it reads writes Goal_Velocity 0 and clears the target; an update()
\* without a target writes nothing; and the target, once None, stays None
\* until set_height_target_mm or apply_action sets a new one.
C3_OnTargetStops ==
    [][/\ (/\ lastOp' = "update" /\ enabled /\ target_mm # None
           /\ Abs(target_mm[1] - Height') <= Mm(on_target_mm))
          => (wr' = GV(0) /\ target_mm' = None)
       /\ (lastOp' = "update" /\ target_mm = None) => (wr' = <<>> /\ target_mm' = None)
       /\ (target_mm = None /\ target_mm' # None)
          => lastOp' \in {"set_height_target_mm", "apply_action"}
      ]_vars

\* C3 witness: update() has stopped the axis within tolerance of a target it
\* did not sit on exactly
C3_Witness ==
    /\ lastOp = "update" /\ enabled
    /\ wr = GV(0) /\ target_mm = None
    /\ Height # 0 /\ z0_deg # 0

\* C4: an update() that finds the error beyond on_target_mm writes one
\* Goal_Velocity, int(dir_sign * clamp(kp_vel * err, -v_max, v_max)): never
\* beyond v_max in magnitude, v_max when kp_vel * |err| reaches it, and of sign
\* dir_sign * sign(err).
C4_ClampedPVelocity ==
    (lastOp = "update" /\ enabled /\ target_mm # None) =>
        LET err == target_mm[1] - Height
            lim == v_max * ticks_per_rev
            p   == kp_vel * err
            c   == IF p > lim THEN lim ELSE IF p < -lim THEN -lim ELSE p
            w   == wr[1][2]
        IN  /\ Abs(err) > Mm(on_target_mm)
            /\ Len(wr) = 1 /\ wr[1][1] = "Goal_Velocity"
            /\ w = TruncDiv(dir_sign * c, ticks_per_rev)
            /\ Abs(w) <= v_max
            /\ (Abs(p) >= lim => Abs(w) = v_max)
            /\ Sgn(w) = dir_sign * Sgn(err)

\* C4 witness: from height 0 toward the target at soft_max_mm the command is
\* saturated at v_max
C4_Witness ==
    /\ lastOp = "update" /\ enabled
    /\ target_mm = Some(Mm(soft_max_mm)) /\ Height = 0
    /\ wr = GV(dir_sign * v_max)

\* A stall sample as the claim defines it: scaled current at or above
\* home_stall_current_ma when use_current is set, or no more than 10 ticks
\* moved since the previous sample
StallSeen(uc, s) ==
    \/ uc /\ s.cur # None /\ s.cur[1] * CurrentScaleX2 >= 2 * home_stall_current_ma
    \/ s.dt <= MovedTicks
LoopStep == pc = "home_loop" /\ home_i' = home_i + 1

\* C5 (as claimed, under SpecHome): the descent loop ends only on the second
\* of two consecutive stall samples.
C5_LoopEndsOnlyOnTwoStalls ==
    [][(LoopStep /\ (pc' = "home_stop" \/ home_i' = HomeIters)) =>
          (home_i >= 1 /\ StallSeen(use_cur, seen) /\ StallSeen(use_cur, seen'))]_vars

\* C5 (amended, under SpecHome): the descent loop breaks off only on the
\* second of two consecutive stall samples; a sample that is no stall resets
\* the debounce counter to 0 and the descent goes on; the first sample never
\* breaks the loop.
C5_BreakOnlyOnTwoStalls ==
    [][LoopStep =>
          /\ pc' = "home_stop" =>
                (home_i >= 1 /\ StallSeen(use_cur, seen) /\ StallSeen(use_cur, seen'))
          /\ ~StallSeen(use_cur, seen') => (stuck' = 0 /\ pc' = "home_loop")
          /\ home_i = 0 => pc' = "home_loop"
      ]_vars

\* C5 witness: the loop broke at its third sample, on a current stall while
\* the shaft was moving (so the first sample was no stall, or the second was
\* not and reset the counter)
C5_Witness ==
    /\ pc = "home_stop" /\ home_i = 3
    /\ use_cur /\ seen.dt > MovedTicks

\* C6: home() sets the zero reference to the extended angle it samples after
\* the settle wait; a get_height_mm() made after home() returned, the encoder
\* still reading what it read then, returns 0.
C6_HomeZeroesHeight ==
    [][/\ (pc # "home_report" /\ pc' = "home_report")
          => z0_deg' = dir_sign * extended_ticks'
       /\ (/\ lastOp = "home" /\ Idle /\ enabled
           /\ z0_deg = dir_sign * extended_ticks
           /\ lastOp' = "get_height_mm" /\ pos' = pos)
          => ret' = Some(0)
      ]_vars

\* C6 witness: height 0 read after a homing that moved the zero reference
\* away from where configure() had put it
C6_Witness ==
    /\ lastOp = "get_height_mm" /\ enabled
    /\ ret = Some(0)
    /\ z0_deg # 0 /\ extended_ticks # 0

\* C7 (under SpecHomeLive): the descent loop never takes more than 600
\* samples, a home() under way always returns, and stall exit and timeout
\* alike disable torque, then set the zero reference and return nothing.
C7_HomeTerminates ==
    /\ [](home_i <= HomeIters)
    /\ (pc # "idle") ~> (pc = "idle")
    /\ [][/\ (pc # "home_report" /\ pc' = "home_report")
             => /\ wr'[Len(wr')] = <<"Torque_Enable", 0>>
                /\ z0_deg' = dir_sign * extended_ticks'
          /\ (pc # "idle" /\ pc' = "idle")
             => /\ ret' = None
                /\ wr' = << <<"Operating_Mode", OperatingMode_VELOCITY>>,
                            <<"Goal_Velocity", home_down_speed>>,
                            <<"Torque_Enable", 0>> >>
         ]_vars

\* C7 witness: the loop has used its 600 samples without two consecutive
\* stalls, and home() has gone on to set the zero reference
C7_Witness ==
    /\ pc = "home_report" /\ home_i = HomeIters /\ stuck < 2
    /\ wr[Len(wr)] = <<"Torque_Enable", 0>>

\* C8 (as claimed): apply_action with a velocity key writes Goal_Velocity 0
\* when the height is at or above soft_max_mm and the command positive, or at
\* or below soft_min_mm and the command negative; any other non-zero command
\* (one directed back inside the range at a limit included) is not zeroed.
\* It fails when the guard's height read raises: the exception is caught
\* (lines 218-223) and the command is written as it is.
C8_BoundaryGuard ==
    (lastOp = "apply_action" /\ enabled /\ arg.v # None) =>
        LET v == arg.v[1]
            outward == \/ Height >= Mm(soft_max_mm) /\ v > 0
                       \/ Height <= Mm(soft_min_mm) /\ v < 0
        IN  /\ outward => wr = GV(0)
            /\ (~outward /\ v # 0) => (Len(wr) = 1 /\ wr[1][2] # 0)

\* the commanded velocity clamped to [-v_max, v_max]
ClampV(x) == IF x > v_max THEN v_max ELSE IF x < -v_max THEN -v_max ELSE x

\* the boundary guard of the last apply_action got its height: the read of
\* lines 218-219 did not raise
GuardRead == RdTicks \notin failed

\* C9: apply_action with a velocity key clears the pending target and writes
\* exactly one Goal_Velocity, the command clamped to [-v_max, v_max] and
\* multiplied by dir_sign (0 when the boundary guard got its height and
\* applies); an update() that follows writes and reads nothing.
C9_DirectVelocity ==
    [][/\ (lastOp' = "apply_action" /\ enabled /\ arg'.v # None) =>
            LET v == arg'.v[1]
                outward == /\ GuardRead'
                           /\ \/ Height' >= Mm(soft_max_mm) /\ v > 0
                              \/ Height' <= Mm(soft_min_mm) /\ v < 0
            IN  /\ target_mm' = None
                /\ Len(wr') = 1 /\ wr'[1][1] = "Goal_Velocity"
                /\ Abs(wr'[1][2]) <= v_max
                /\ wr'[1][2] = IF outward THEN 0 ELSE dir_sign * ClampV(v)
       /\ (/\ lastOp = "apply_action" /\ enabled /\ arg.v # None
           /\ lastOp' = "update")
          => (wr' = <<>> /\ rd' = 0)
      ]_vars

\* C9 witness: a command beyond v_max was written at v_max, the target gone
C9_Witness ==
    /\ lastOp = "apply_action" /\ enabled
    /\ arg.v = Some(1500) /\ arg.h = None
    /\ wr = GV(dir_sign * v_max)
    /\ target_mm = None

\* C10: set_height_target_mm(mm) stores min(soft_max_mm, max(soft_min_mm, mm))
\* as the pending target and touches the bus neither way.
C10_TargetClamped ==
    (lastOp = "set_height_target_mm" /\ enabled) =>
        LET mm == arg[1]
            lo == IF mm > soft_min_mm THEN mm ELSE soft_min_mm
            c  == IF lo < soft_max_mm THEN lo ELSE soft_max_mm
        IN  /\ target_mm = Some(Mm(c))
            /\ wr = <<>> /\ rd = 0

\* C10 witness: a request above soft_max_mm was stored as soft_max_mm
C10_Witness ==
    /\ lastOp = "set_height_target_mm" /\ enabled
    /\ arg = Some(70)
    /\ target_mm = Some(Mm(soft_max_mm))

\* C11 (as claimed): Operating_Mode is written at most once over any sequence
\* of calls; a configure() that returns after an earlier configure() or
\* home() (the axis configured, or the mode written before) reads nothing,
\* writes nothing and leaves last_tick and extended_ticks as they were; the
\* first configure() writes Operating_Mode = velocity, takes last_tick from
\* the raw position it reads and sets extended_ticks to 0.  It fails after a
\* configure() whose Present_Position read raised (line 88): the mode is
\* written, the latch is not set, and the next call writes the mode again.
C11_ConfigureOnce ==
    /\ [](nmode <= 1)
    /\ [][(lastOp' = "configure" /\ enabled /\ ~raised') =>
            IF configured \/ nmode >= 1
            THEN /\ wr' = <<>> /\ rd' = 0
                 /\ UNCHANGED <<last_tick, extended_ticks, configured>>
            ELSE /\ wr' = << <<"Operating_Mode", OperatingMode_VELOCITY>> >>
                 /\ rd' = 1
                 /\ last_tick' = pos' /\ extended_ticks' = 0
                 /\ configured'
         ]_vars

\* C12 (under SpecAll): attach() on an enabled axis leaves the motor mapping
\* with an entry under cfg.name and every entry it had, unchanged: an entry
\* already under the name stays as it was, a missing one becomes
\* Motor(motor_id, motor_model, DEGREES), no other key appears; attach() on a
\* disabled axis leaves the mapping as it was; and no other method touches it.
C12_AttachIdempotent ==
    [][IF lastOp' = "attach"
       THEN IF enabled
            THEN /\ DOMAIN motors' = DOMAIN motors \cup {name}
                 /\ \A k \in DOMAIN motors : motors'[k] = motors[k]
                 /\ name \notin DOMAIN motors =>
                        motors'[name] = Motor(motor_id, motor_model, "DEGREES")
                 /\ UNCHANGED <<axis, env>>
            ELSE UNCHANGED <<motors, axis, env>>
       ELSE motors' = motors
      ]_vars

\* C12 witness: attach() has run on a bus that already had an entry under the
\* name, and that entry is still the one it had
C12_Witness ==
    /\ lastOp = "attach" /\ enabled
    /\ motors = NamedMotors

\* C13: get_height_mm() on an enabled axis makes one Present_Position read,
\* adds the unwrapped difference to extended_ticks and returns
\* (dir_sign * extended_ticks * 360/4096 - zero_reference_deg)
\*   * (lead_mm_per_rev * output_gear_ratio) / 360
\* of the refreshed extended_ticks (here in units of 1/4096 mm, the angles in
\* units of 360/4096 degree); on a disabled axis it returns 0 and reads nothing.
C13_HeightFormula ==
    [][(lastOp' = "get_height_mm" /\ ~raised') =>
          IF enabled
          THEN LET dl == pos' - last_tick
                   un == IF dl > ticks_per_rev \div 2 THEN dl - ticks_per_rev
                         ELSE IF dl < -(ticks_per_rev \div 2) THEN dl + ticks_per_rev
                         ELSE dl
               IN  /\ rd' = 1 /\ wr' = <<>>
                   /\ extended_ticks' = extended_ticks + un
                   /\ last_tick' = pos'
                   /\ ret' = Some((dir_sign * extended_ticks' - z0_deg)
                                    * lead_mm_per_rev * output_gear_ratio)
                   /\ z0_deg' = z0_deg
          ELSE /\ ret' = Some(0) /\ rd' = 0 /\ wr' = <<>>
               /\ UNCHANGED <<axis, env>>
      ]_vars

\* C13 witness: a height below the zero reference homing had set, read with
\* the shaft behind where configure() saw it
C13_Witness ==
    /\ lastOp = "get_height_mm" /\ enabled
    /\ z0_deg # 0 /\ ret # None /\ ret[1] < 0
    /\ extended_ticks < 0 /\ extended_ticks = disp

\* C14: clear_target() on an enabled axis, whatever its state, leaves the
\* target None and writes Goal_Velocity 0 in the same call, reading nothing
\* and keeping the tick tracking and the zero reference; an update() that
\* follows it writes nothing and reads nothing.
C14_ClearTargetStops ==
    [][/\ (lastOp' = "clear_target" /\ enabled /\ ~raised') =>
             /\ target_mm' = None
             /\ wr' = GV(0) /\ rd' = 0
             /\ UNCHANGED <<last_tick, extended_ticks, z0_deg, configured, env>>
       /\ (lastOp = "clear_target" /\ enabled /\ ~raised /\ lastOp' = "update") =>
             /\ wr' = <<>> /\ rd' = 0
             /\ UNCHANGED <<axis, env>>
      ]_vars

\* C14 witness: clear_target() has stopped a homed axis standing above
\* soft_max_mm
C14_Witness ==
    /\ lastOp = "clear_target" /\ enabled
    /\ target_mm = None /\ wr = GV(0)
    /\ z0_deg # 0 /\ Height > Mm(soft_max_mm)

\* C15 (under SpecHome): a descent sample of home(use_current = True) whose
\* Present_Current read raises does not end the call in an exception; the
\* current of that sample is taken as 0, so the sample is a stall exactly when
\* the position moved by no more than 10 ticks since the previous sample: the
\* debounce counter goes up by one then and back to 0 otherwise, and the loop
\* breaks only if the counter reached 2.
C15_CurrentReadFailure ==
    [][(LoopStep /\ use_cur /\ RdHomeCurrent \in failed') =>
          /\ ~raised'
          /\ pc' \in {"home_loop", "home_stop"}
          /\ stuck' = IF seen'.dt <= MovedTicks THEN stuck + 1 ELSE 0
          /\ (pc' = "home_stop") <=> (stuck' >= 2)
      ]_vars

\* C15 witness: a sample, not the first, whose current read raised while the
\* shaft moved by more than 10 ticks: the descent goes on, counter at 0
C15_Witness ==
    /\ pc = "home_loop" /\ use_cur /\ home_i >= 2
    /\ RdHomeCurrent \in failed /\ ~raised
    /\ seen.dt > MovedTicks /\ stuck = 0

SixMethods ==
    {"configure", "get_height_mm", "update", "clear_target", "apply_action",
     "contribute_observation"}

\* C16 (as claimed, under SpecAll): a call of configure, get_height_mm,
\* update, clear_target, apply_action or contribute_observation in which a
\* bus operation raised has ended in that exception.
C16_AllFailuresPropagate ==
    (lastOp \in SixMethods /\ failed # {}) => raised

\* the bus operations a method makes inside a try/except: lines 133-139,
\* 218-223, 195-198
Caught(op) ==
    IF op = "home" THEN {RdHomeCurrent}
    ELSE IF op = "apply_action" THEN {RdTicks}
    ELSE IF op = "contribute_observation" THEN {RdVelocity}
    ELSE {}

\* C16 (amended, under SpecAll): a call in which a bus operation raised has
\* ended in that exception unless the operation is one of three the code
\* catches: homing's current read, the height read of apply_action's boundary
\* guard (the clamped command is then written without the guard) and the
\* Present_Velocity read of contribute_observation (the height key is written,
\* the velocity key left as it was).
C16_FailuresPropagateUnlessCaught ==
    /\ failed # {} => (raised <=> ~(failed \subseteq Caught(lastOp)))
    /\ (lastOp = "apply_action" /\ failed = {RdTicks}) =>
          wr = GV(dir_sign * ClampV(arg.v[1]))
    /\ (lastOp = "contribute_observation" /\ failed = {RdVelocity}) =>
          /\ key_h \in DOMAIN obs /\ obs[key_h] = Height
          /\ key_v \in DOMAIN obs =>
                (key_v \in DOMAIN arg[1] /\ obs[key_v] = arg[1][key_v])

\* C16 witness: the height read of the boundary guard raised with the axis at
\* or above soft_max_mm; apply_action returned, the upward command written
C16_Witness ==
    /\ lastOp = "apply_action" /\ enabled
    /\ failed = {RdTicks} /\ ~raised
    /\ arg.v = Some(400) /\ Height >= Mm(soft_max_mm)
    /\ wr = GV(dir_sign * 400)

\* C17 (under SpecAll): after contribute_observation(obs) the mapping holds
\* every key it was given, each key other than "<name>.height_mm" and
\* "<name>.vel" with the value it had, and no key beyond those two is new; an
\* enabled axis whose height read answered has written the height it read
\* under "<name>.height_mm"; a disabled axis leaves the mapping as it was.
C17_ObservationFrame ==
    lastOp = "contribute_observation" =>
        LET o == arg[1]
        IN  /\ DOMAIN o \subseteq DOMAIN obs
            /\ DOMAIN obs \subseteq DOMAIN o \cup {key_h, key_v}
            /\ \A k \in DOMAIN o \ {key_h, key_v} : obs[k] = o[k]
            /\ (enabled /\ ~raised) => (key_h \in DOMAIN obs /\ obs[key_h] = Height)
            /\ ~enabled => obs = o

\* C17 witness: both keys were there with old values and were overwritten,
\* the arm's key still as it was
C17_Witness ==
    /\ lastOp = "contribute_observation" /\ enabled /\ ~raised
    /\ key_v \in DOMAIN arg[1] /\ arg[1][key_v] = 5
    /\ obs[key_v] = -3 /\ obs[key_h] # 5
    /\ obs["shoulder_pan.pos"] = 7

\* C18 (under SpecAll): the zero reference is 0 at construction and stays 0
\* while the axis is not configured; the only step that changes it is home()
\* setting it after the descent: attach, configure, get_height_mm,
\* set_height_target_mm, clear_target, update, apply_action and
\* contribute_observation leave it as it is, also when they raise.
C18_ZeroOnlyByHome ==
    /\ z0_deg = 0
    /\ [](~configured => z0_deg = 0)
    /\ [][z0_deg' # z0_deg =>
            /\ lastOp' = "home"
            /\ pc = "home_settle" /\ pc' = "home_report"
         ]_vars

\* C18 witness: a non-zero reference set by home() is still there after
\* contribute_observation ran on the axis
C18_Witness ==
    /\ lastOp = "contribute_observation" /\ enabled /\ ~raised
    /\ z0_deg # 0 /\ obs[key_h] # 0

\* the unscaled wheel speeds of the call, in 1/StepDen step
WIn == wheel_speeds(w_in.x, w_in.y, w_in.theta)
NoClipping == wheel_peak(WIn) <= StepDen * w_in.max_raw

\* C19 (as claimed, under SpecWheels): when the peak wheel speed does not
\* exceed max_raw, wheel_raw_to_body(body_to_wheel_raw(x, y, theta)) is
\* (x, y, theta) up to the rounding of the three raw values (each off by at
\* most half a step: x and theta by at most 1/2 step, y by at most 1/3 step,
\* in wheel-speed units), negative wheel speeds included.
C19_RoundTrip ==
    (w_body # None /\ NoClipping) =>
        /\ Abs(w_body[1][1] - 2 * w_in.x) <= 9
        /\ Abs(w_body[1][2] - 2 * w_in.y) <= 6
        /\ Abs(w_body[1][3] - 2 * ThetaSteps * w_in.theta) <= 9

\* C20 (under SpecWheels): every wheel value body_to_wheel_raw returns is at
\* most max_raw in magnitude; when the unscaled peak exceeds max_raw each
\* value is the wheel speed times max_raw/peak, rounded (and held at 0x7FFF),
\* so the peak wheel comes out at max_raw; otherwise each value is the wheel
\* speed itself, rounded.
C20_WheelsWithinMaxRaw ==
    w_raw # None =>
        LET peak == wheel_peak(WIn)
            m == w_in.max_raw
        IN  \A i \in 1..3 :
               /\ Abs(w_raw[1][i]) <= m
               /\ IF peak > StepDen * m
                  THEN \/ 2 * Abs(w_raw[1][i] * peak - WIn[i] * m) <= peak
                       \/ Abs(w_raw[1][i]) = Mask15
                  ELSE \/ 2 * Abs(StepDen * w_raw[1][i] - WIn[i]) <= StepDen
                       \/ Abs(w_raw[1][i]) = Mask15

\* C20 witness: a body velocity whose peak wheel speed is above the default
\* ceiling came out with the peak wheel at the ceiling and another wheel
\* turning the other way below it
C20_Witness ==
    /\ w_raw # None /\ w_in.max_raw = MAX_RAW
    /\ wheel_peak(WIn) > StepDen * MAX_RAW
    /\ \E i, j \in 1..3 :
          /\ w_raw[1][i] = MAX_RAW
          /\ w_raw[1][j] < 0 /\ w_raw[1][j] > -MAX_RAW

\* C21 (under SpecWheels): degps_to_raw is odd-symmetric: for every speed v,
\* degps_to_raw(-v) = -degps_to_raw(v), both 0 when the magnitude rounds to 0.
C21_OddSymmetric ==
    c_raw # None => c_raw[1][2] = -c_raw[1][1]

\* C21 witness: a speed that does not round to 0 came out positive, and its
\* negation came out as the negative of that.
C21_Witness ==
    /\ c_raw # None /\ c_v > 0
    /\ c_raw[1][1] > 0 /\ c_raw[1][1] < Mask15
    /\ c_raw[1][2] = -c_raw[1][1]

\* C24 (as claimed, under SpecWheels): raw_to_degps decodes what degps_to_raw
\* encodes: for every signed raw value r returned by degps_to_raw,
\* raw_to_degps(r) has the sign of r and the magnitude |r| steps/s (|r| * 360 /
\* 4096 deg/s), for positive and for negative v.
C24_DecodesEncoded ==
    c_deg # None =>
        /\ c_deg[1][1] = c_raw[1][1]
        /\ c_deg[1][2] = c_raw[1][2]

\* the part of C24 that the code has: a value that is not negative decodes to
\* itself, and a negative one to -(32768 - |r|)
C24_TwosComplementDecode ==
    c_deg # None =>
        \A i \in 1..2 :
            c_deg[1][i] = IF c_raw[1][i] >= 0 THEN c_raw[1][i]
                          ELSE -(Bit15 + c_raw[1][i])

\* C27 (under SpecWheels): degps_to_raw returns a signed integer whose
\* magnitude is round(|v| * 4096/360) held at 0x7FFF and whose sign is the sign
\* of v (no sign bit packed into the value), so every value degps_to_raw and
\* body_to_wheel_raw return lies in -32767..32767, whatever max_raw is.
C27_SignedWithin15Bits ==
    /\ c_raw # None =>
          \A i \in 1..2 :
             LET r == c_raw[1][i]
                 v == IF i = 1 THEN c_v ELSE -c_v
                 den == StepDiv * SpeedDen
             IN  /\ r \in -Mask15..Mask15
                 /\ (v > 0 => r >= 0) /\ (v < 0 => r <= 0) /\ (v = 0 => r = 0)
                 /\ IF Abs(r) < Mask15
                    THEN 2 * Abs(Abs(r) * den - StepNum * Abs(v)) <= den
                    ELSE 2 * StepNum * Abs(v) >= (2 * Mask15 - 1) * den
    /\ w_raw # None => \A i \in 1..3 : w_raw[1][i] \in -Mask15..Mask15

\* C27 witness: a speed beyond 0x7FFF steps/s was held at 32767 and its
\* negation at -32767.
C27_Witness ==
    /\ c_raw # None
    /\ StepNum * c_v > (Mask15 + 1) * StepDiv * SpeedDen
    /\ c_raw[1] = << Mask15, -Mask15 >>

ThreadsAtRest == \A t \in Threads : t_pc[t] \in {"idle", "done"}

\* C22 (under SpecThreads): tick unwrapping is not safe under interleaving.
\* As long as no two _update_extended_ticks calls were ever under way at once,
\* whenever no call is under way extended_ticks is the displacement of the
\* shaft and last_tick its raw position, whatever the order of the calls; two
\* calls that interleave can leave extended_ticks at another value, the motion
\* counted twice (C22_Witness).
C22_SequentialCallsExact ==
    (ThreadsAtRest /\ ~overlap) => (extended_ticks = disp /\ last_tick = pos)

\* C22 witness: two interleaved calls have returned and the one motion of the
\* shaft is in extended_ticks twice.
C22_Witness ==
    /\ overlap /\ \A t \in Threads : t_pc[t] = "done"
    /\ disp # 0
    /\ extended_ticks = 2 * disp
    /\ last_tick = pos

\* C23 (as claimed, under Spec): home() drives the axis downward: the
\* Goal_Velocity it writes commands decreasing height under the sign
\* convention of update() and apply_action (they write the logical velocity
\* times dir_sign, and a positive logical velocity raises the height), for
\* dir_sign +1 as for dir_sign -1.
C23_HomeDrivesDownward ==
    (lastOp = "home" /\ pc = "home_read") =>
        /\ wr[Len(wr)][1] = "Goal_Velocity"
        /\ wr[Len(wr)][2] * dir_sign < 0

\* what home() has of C23: the value written is home_down_speed itself,
\* whatever dir_sign is, which is downward for dir_sign = -1 only
C23_HomeWritesUnsignedSpeed ==
    (lastOp = "home" /\ pc = "home_read") =>
        wr[Len(wr)] = <<"Goal_Velocity", home_down_speed>>

\* C25 (under SpecUnwrap): for every pair of consecutive raw readings in
\* 0..4095, one _update_extended_ticks call changes extended_ticks by at most
\* half a revolution (2048 ticks) in magnitude, however far the shaft moved.
C25_StepAtMostHalfRev ==
    [][ lastOp' = "get_height_mm" =>
            Abs(extended_ticks' - extended_ticks) <= half ]_vars

\* C25 witness: the shaft was driven faster than half a revolution per sample
\* and a reading of 2058 after 10 has moved extended_ticks by exactly 2048.
C25_Witness ==
    /\ lastOp = "get_height_mm" /\ enabled /\ ~slow
    /\ last_tick = 2058
    /\ extended_ticks % ticks_per_rev = half

HomeStartWrites ==
    { << <<"Goal_Velocity", home_down_speed>> >>,
      << <<"Operating_Mode", OperatingMode_VELOCITY>>,
         <<"Goal_Velocity", home_down_speed>> >> }

\* C26 (under Spec): in every execution of home() the bus writes are, in this
\* order, Operating_Mode (exactly when the axis was not yet configured),
\* Goal_Velocity = home_down_speed, and Torque_Enable = 0 once the descent
\* loop has ended; the zero reference is assigned only by the step after the
\* settle wait, Torque_Enable = 0 being the last write made, and home() on an
\* unconfigured axis has configured it when the velocity is commanded.
C26_HomeWriteOrder ==
    /\ []( pc \in {"home_read", "home_loop", "home_stop"} =>
              /\ lastOp = "home" /\ configured
              /\ wr \in HomeStartWrites )
    /\ []( (pc \in {"home_settle", "home_report"}
               \/ (pc = "idle" /\ lastOp = "home" /\ enabled)) =>
              \E w \in HomeStartWrites : wr = w \o << <<"Torque_Enable", 0>> >> )
    /\ [][ (pc = "idle" /\ pc' = "home_read") =>
              (wr'[1][1] = "Operating_Mode") = ~configured ]_vars
    /\ [][ z0_deg' # z0_deg =>
              /\ pc = "home_settle" /\ pc' = "home_report"
              /\ wr[Len(wr)] = <<"Torque_Enable", 0>>
              /\ wr' = wr ]_vars

\* C26 witness: home() on an unconfigured axis has returned with the three
\* writes in order and a zero reference other than the initial one.
C26_Witness ==
    /\ pc = "idle" /\ lastOp = "home" /\ enabled /\ configured
    /\ wr = << <<"Operating_Mode", OperatingMode_VELOCITY>>,
               <<"Goal_Velocity", home_down_speed>>,
               <<"Torque_Enable", 0>> >>
    /\ z0_deg # 0

\* C28 (under Spec): in every reachable state of an enabled LiftAxis, after
\* any sequence of set_height_target_mm, apply_action, update, clear_target,
\* configure and home calls, the pending target is None or a value within
\* [soft_min_mm, soft_max_mm].
C28_TargetWithinLimits ==
    enabled =>
        \/ target_mm = None
        \/ /\ target_mm[1] >= Mm(soft_min_mm)
           /\ target_mm[1] <= Mm(soft_max_mm)

\* C28 witness: apply_action was given a height above soft_max_mm and the
\* pending target is soft_max_mm.
C28_Witness ==
    /\ lastOp = "apply_action" /\ enabled
    /\ arg.h = Some(70) /\ arg.v = None
    /\ target_mm = Some(Mm(soft_max_mm))

\* C29 (under Spec): when one action holds both the height key and the
\* velocity key, the velocity key wins: after the call the pending target is
\* None and exactly one Goal_Velocity has been written, the direct velocity
\* clamped to [-v_max, v_max], zeroed by the boundary guard when the guard got
\* its height and the velocity points outward at a limit, times dir_sign.
C29_VelocityKeyWins ==
    (lastOp = "apply_action" /\ enabled /\ arg.h # None /\ arg.v # None) =>
        LET v == arg.v[1]
            outward == /\ GuardRead
                       /\ \/ Height >= Mm(soft_max_mm) /\ v > 0
                          \/ Height <= Mm(soft_min_mm) /\ v < 0
        IN  /\ target_mm = None
            /\ wr = GV(IF outward THEN 0 ELSE dir_sign * ClampV(v))
            /\ rd = IF GuardRead THEN 2 ELSE 1

\* C29 witness: an action with both keys has left no target and one write of
\* the direct velocity.
C29_Witness ==
    /\ lastOp = "apply_action" /\ enabled
    /\ arg = [h |-> Some(2), v |-> Some(400)]
    /\ target_mm = None
    /\ wr = GV(dir_sign * 400)

\* C30 (under SpecAll): a disabled axis is inert: every call of attach,
\* configure, home, get_height_mm, set_height_target_mm, clear_target, update,
\* apply_action and contribute_observation reads and writes nothing on the
\* bus, leaves the LiftAxis state, the motor mapping and the obs mapping as
\* they were, raises nothing, and home() returns at once.
C30_DisabledInert ==
    [][ ~enabled =>
          /\ lastOp' \in {"attach", "configure", "home", "get_height_mm",
                          "set_height_target_mm", "clear_target", "update",
                          "apply_action", "contribute_observation"}
          /\ wr' = <<>> /\ rd' = 0
          /\ ~raised' /\ failed' = {}
          /\ UNCHANGED <<axis, motors, env>>
          /\ pc' = "idle"
          /\ lastOp' = "contribute_observation" => obs' = arg'[1]
          /\ lastOp' = "get_height_mm" => ret' = Some(0) ]_vars

\* C30 witness: contribute_observation on a disabled axis was given a mapping
\* that holds the axis' keys and has left it as it was, with no bus read.
C30_Witness ==
    /\ ~enabled /\ lastOp = "contribute_observation"
    /\ key_h \in DOMAIN arg[1]
    /\ obs = arg[1]
    /\ wr = <<>> /\ rd = 0 /\ ~raised
    /\ target_mm = Some(0) /\ ~configured

\* the time since the last applied command (since the start of main() before
\* the first one), as the last iteration saw it, exceeds the timeout
HostExpired == host.now - host.last_cmd_time > watchdog_timeout_ms

\* the work of an iteration (not its wait)
HostWorks == host.at = "loop" /\ host' # host

\* C31 (under SpecHost): the host watchdog.  stop_base() is called in the
\* first iteration in which the time since the last applied command exceeds
\* watchdog_timeout_ms, and at most once per command gap: once it has fired
\* it does not fire again until a command has been received and applied; a
\* command whose send_action (or decoding) fails leaves last_cmd_time and a
\* set watchdog_active as they are; the wait at the end of an iteration
\* changes none of the watchdog's variables.
C31_HostWatchdog ==
    /\ [](host.stops <= 1)
    /\ [](HostExpired => (host.watchdog_active /\ host.stops = 1))
    /\ [][ HostWorks =>
              host'.fired =
                 (HostExpired' /\ (cmd_applied(host'.recv) \/ ~HostExpired)) ]_vars
    /\ [][ HostWorks /\ ~cmd_applied(host'.recv) =>
              /\ host'.last_cmd_time = host.last_cmd_time
              /\ host.watchdog_active =>
                    (host'.watchdog_active /\ ~host'.fired) ]_vars
    /\ [][ host.at = "sleep" =>
              /\ host'.last_cmd_time = host.last_cmd_time
              /\ host'.watchdog_active = host.watchdog_active
              /\ host'.stops = host.stops /\ host'.now = host.now ]_vars

\* C31 witness: a command was applied, none for more than the timeout, the
\* watchdog fired once, and a later command whose send_action raised has left
\* it fired and the time of the last command as it was.
C31_Witness ==
    /\ host.recv = RecvSendFails
    /\ host.last_cmd_time > 0
    /\ host.now - host.last_cmd_time > 2 * watchdog_timeout_ms
    /\ host.watchdog_active /\ ~host.fired /\ host.stops = 1

====
